---- MODULE Spec2Model ----
(***************************************************************************)
(* Model of main.py: the employee endpoints (GET /employees,               *)
(* GET /employees/{id}, POST /employees, DELETE /employees/{id}),          *)
(* GET /series, GET /, GET /health, GET /stats, GET /db/tables,            *)
(* GET /test/error/{code}, GET /admin/clear-test-data, the router's answer *)
(* to a method without a route, the two exception handlers and the         *)
(* connection pool of the engine. Each request                             *)
(* runs in its own request-scoped session against the shared tables.       *)
(* A session reads committed rows only (PostgreSQL READ COMMITTED, the     *)
(* engine default: no isolation level is set in create_engine) and its     *)
(* own writes become visible to the others at db.commit().                 *)
(***************************************************************************)
EXTENDS Integers, Sequences, FiniteSets, TLC

\* ------------------------------------------------------------------ bounds

\* ids the employees id sequence may hand out (1..MaxSeq)
MaxSeq == 3
\* largest page number a client asks for
MaxPage == 3
\* the engine's pool: create_engine(pool_size=5, max_overflow=10), scaled
\* down; the pool hands out at most pool_size + max_overflow connections
pool_size == 1
max_overflow == 1
\* the GET / requests a run handles at most
MaxRequests == 2

\* ------------------------------------------------------- program constants

\* Field(min_length=2) of first_name / last_name
MinNameLen == 2
\* Field(max_length=50) of first_name / last_name / position
MaxTextLen == 50
\* Query(le=100) of per_page
PerPageLimit == 100

HTTP_200 == 200
HTTP_201 == 201
HTTP_400 == 400
HTTP_404 == 404
HTTP_422 == 422
HTTP_500 == 500

\* ------------------------------------------------------------------- text
\* A str is a sequence of one-character strings over a small alphabet.

LowerOf == [c \in {"a", "b", "n", "A", "B", "N", "1", " "} |->
              CASE c = "A" -> "a" [] c = "B" -> "b" [] c = "N" -> "n" [] OTHER -> c]

UpperOf == [c \in {"a", "b", "n", "A", "B", "N", "1", " "} |->
              CASE c = "a" -> "A" [] c = "b" -> "B" [] c = "n" -> "N" [] OTHER -> c]

\* str.isdigit() of one character
IsDigit(c) == c \in {"1"}

\* a cased character: one that str.title() changes the case of
IsCased(c) == c \in {"a", "b", "n", "A", "B", "N"}

\* str.title(): a cased character is upper-cased when it starts a word (the
\* character before it is not cased) and lower-cased otherwise; any other
\* character is kept.
Title(s) ==
    [i \in 1..Len(s) |->
        IF IsCased(s[i])
        THEN IF i > 1 /\ IsCased(s[i - 1]) THEN LowerOf[s[i]] ELSE UpperOf[s[i]]
        ELSE s[i]]

\* any(char.isdigit() for char in v)
HasDigit(s) == \E i \in 1..Len(s) : IsDigit(s[i])

\* name ILIKE '%' || pat || '%' : pat occurs in name, letter case ignored
ILike(name, pat) ==
    \E k \in 0..(Len(name) - Len(pat)) :
        \A i \in 1..Len(pat) : LowerOf[name[k + i]] = LowerOf[pat[i]]

\* the collation order of the characters, and of strings
CharOrd == [c \in {"a", "b", "n", "A", "B", "N", "1", " "} |->
              CASE c = " " -> 0 [] c = "1" -> 1
                [] c = "a" -> 2 [] c = "A" -> 3
                [] c = "b" -> 4 [] c = "B" -> 5
                [] c = "n" -> 6 [] OTHER -> 7]

RECURSIVE StrLeq(_, _)
StrLeq(s, t) ==
    IF s = <<>> THEN TRUE
    ELSE IF t = <<>> THEN FALSE
    ELSE IF CharOrd[Head(s)] # CharOrd[Head(t)]
         THEN CharOrd[Head(s)] < CharOrd[Head(t)]
         ELSE StrLeq(Tail(s), Tail(t))

\* Optional[...]: {} is None, {v} is the value v
None == {}
Some(v) == {v}
ValueOf(o) == CHOOSE v \in o : TRUE

\* a value of a JSON body with its Python type: the detail of an
\* HTTPException is a str or a dict, a sampled count an int or the str "error"
Str(s) == [type |-> "str", value |-> s]
Dict(d) == [type |-> "dict", value |-> d]
IntVal(n) == [type |-> "int", value |-> n]


\* ----------------------------------------------------------------- state

VARIABLES
    employees,         \* table employees: id -> row (committed rows)
    employee_series,   \* join table: set of [employee_id, series_id]
    departments,       \* table departments: id -> [name]
    cars,              \* table cars: id -> [brand, model]
    series,            \* table series: id -> [title, rating]
    employees_id_seq,  \* last value of the id sequence of employees
    reqs,              \* the requests being handled: slot -> request
    hist,              \* history: every employee row ever committed, by id
    request_count      \* the global request_count of the process

vars == <<employees, employee_series, departments, cars, series,
          employees_id_seq, reqs, hist, request_count>>

tables == <<employees, employee_series, departments, cars, series>>

\* the requests the server handles at the same time
ReqIds == {"r1", "r2"}

NoRec == [none |-> TRUE]

\* kind: the endpoint; pc: the statement the handler is at; in: the bound
\* parameters; loc: the handler's local variables; tx: the session's
\* uncommitted writes; conns: the pooled connections the request has checked
\* out; resp: what the route produced, a returned value or a raised
\* exception; obs: what the request saw of the tables (history, read by the
\* properties only)
Idle == [kind |-> "idle", pc |-> "idle", in |-> NoRec, loc |-> NoRec,
         tx |-> NoRec, conns |-> 0, resp |-> NoRec, obs |-> NoRec]

\* raise HTTPException(status_code=..., detail=...)
RaiseHTTP(status_code, detail) ==
    [status |-> status_code, exc |-> "HTTPException", detail |-> detail]

\* a parameter or a body that fails validation: FastAPI raises
\* RequestValidationError before the handler is called
RaiseValidation == [status |-> HTTP_422, exc |-> "RequestValidationError"]

\* a session's transaction: its uncommitted writes
NoTx == [ins |-> <<>>, delEmp |-> {}, delSeries |-> {}]

Restrict(f, S) == [x \in S |-> f[x]]

Min(a, b) == IF a < b THEN a ELSE b
Max(a, b) == IF a > b THEN a ELSE b

\* ------------------------------------------------------------- the inputs

\* the slots that take the read requests: a read changes no table, so a
\* second read in flight adds nothing to what the tables can do
Readers == {"r1"}

\* the request bodies of POST /employees: two that are stored, three with a
\* department or a car that does not exist, and four that validation rejects
CreateInputs ==
    { [first_name |-> <<"a", "n">>, last_name |-> <<"b", "a", "n">>,
       position |-> <<"a">>, department_id |-> 1, car_id |-> 1],
      [first_name |-> <<"a", " ", "B", "A">>, last_name |-> <<"n", "A">>,
       position |-> <<"b">>, department_id |-> 2, car_id |-> 1] }
    \cup
    { [first_name |-> <<"a", "n">>, last_name |-> <<"b", "a", "n">>,
       position |-> <<"a">>, department_id |-> d, car_id |-> c] :
         d \in {0, 1, 9}, c \in {1, 9} }
    \cup
    { [first_name |-> f, last_name |-> l,
       position |-> <<"a">>, department_id |-> 9, car_id |-> 1] :
         f \in { <<"a", "n">>, <<"b", "1">>, <<"n">> },
         l \in { <<"b", "a", "n">>, <<"B", "1", "a">> } }

\* the bodies posted while other requests are in flight
ConcurrentCreateInputs ==
    { [first_name |-> <<"a", "n">>, last_name |-> <<"b", "a", "n">>,
       position |-> <<"a">>, department_id |-> 1, car_id |-> 1],
      [first_name |-> <<"a", " ", "B", "A">>, last_name |-> <<"n", "A">>,
       position |-> <<"b">>, department_id |-> 2, car_id |-> 1],
      [first_name |-> <<"a", "n">>, last_name |-> <<"b", "a", "n">>,
       position |-> <<"a">>, department_id |-> 9, car_id |-> 1],
      [first_name |-> <<"b", "1">>, last_name |-> <<"b", "a", "n">>,
       position |-> <<"a">>, department_id |-> 1, car_id |-> 1] }

\* the values of per_page a client asks for
PerPageInputs == {0, 1, 2, PerPageLimit, PerPageLimit + 1}

\* a query string of GET /employees
ListInput(pg, pp, d, s, sb, so) ==
    [page |-> pg, per_page |-> pp, department_id |-> d, search |-> s,
     sort_by |-> sb, sort_order |-> so]

\* the filters a client asks for: falsy values, a department without
\* employees, a search, and both filters
FilterInputs ==
    { <<Some(0), Some(<<>>)>>, <<Some(2), None>>, <<Some(1), None>>,
      <<None, Some(<<"A">>)>>, <<Some(1), Some(<<"a", "n">>)>> }

\* the query strings of GET /employees
ListInputs ==
    { ListInput(pg, pp, None, None, "id", "asc") :
         pg \in 0..MaxPage, pp \in PerPageInputs }
    \cup
    { ListInput(pg, pp, f[1], f[2], "id", "asc") :
         pg \in 1..MaxPage, pp \in {1, 2}, f \in FilterInputs }
    \cup
    { ListInput(1, 2, None, None, sb, so) :
         sb \in {"last_name", "department_id", "salary"},
         so \in {"asc", "desc", "ASC"} }

\* the query strings asked for while other requests are in flight
ConcurrentListInputs ==
    { ListInput(1, 1, None, None, "id", "asc"),
      ListInput(2, 1, None, None, "id", "asc"),
      ListInput(1, 2, None, None, "department_id", "desc"),
      ListInput(1, 2, Some(1), None, "id", "asc"),
      ListInput(1, 1, Some(2), None, "id", "asc"),
      ListInput(1, 2, None, Some(<<"A">>), "id", "asc"),
      ListInput(1, 2, None, None, "salary", "asc") }

\* the ids a client asks for
IdInputs == 1..MaxSeq

\* the methods and the JSON bodies (sets of field and value) of the update
\* requests a client sends: the empty object and one field
UpdateMethods == {"PUT", "PATCH"}
UpdateInputs == { {}, {<<"position", <<"b">>>>} }

\* the tables of schema public as inspector.get_table_names returns them: the
\* five tables of the application, and a schema that holds a sixth table
TableListInputs ==
    { <<"cars", "departments", "employee_series", "employees", "series">>,
      <<"audit_log", "cars", "departments", "employee_series", "employees",
        "series">> }

\* the exceptions a failing probe or a failing inspection raises: an
\* SQLAlchemyError, or an exception of another class
HealthFaults == {"OperationalError", "RuntimeError"}

\* the query strings of GET /series: ratings in and out of 0..10, sort fields
\* in and out of the allow-list, and sort orders as a client may write them
SeriesInputs ==
    { [min_rating |-> mn, max_rating |-> None, sort_by |-> "rating",
       sort_order |-> "desc"] : mn \in {None, Some(0), Some(9), Some(11)} }
    \cup
    { [min_rating |-> None, max_rating |-> mx, sort_by |-> sb, sort_order |-> so] :
         mx \in {None, Some(8)},
         sb \in {"rating", "title", "fans", "id"},
         so \in {"asc", "desc", "asc nulls first",
                 "desc; drop table series"} }
    \cup
    { [min_rating |-> None, max_rating |-> None, sort_by |-> "title",
       sort_order |-> "desc; delete from employee_series; commit"] }

\* the requests of GET /test/error/{error_code}: codes of the dict
\* error_messages and other integers; no message, an empty one and a text; no
\* sleep, none at all and one above the limit
TestErrorInputs ==
    { [error_code |-> c, message |-> m, sleep |-> None] :
         c \in {200, 204, 400, 404, 418, 422, 500, 504},
         m \in {None, Some(""), Some("boom")} }
    \cup
    { [error_code |-> c, message |-> Some("boom"), sleep |-> sl] :
         c \in {200, 503}, sl \in {Some(0), Some(31)} }

\* ------------------------------------------------------------------ Init

\* two employees are in the table when the server starts; the id sequence
\* stands at the largest id
InitialEmployees ==
    (1 :> [first_name |-> <<"A", "n", "n">>, last_name |-> <<"B", "a", "n">>,
           position |-> <<"a">>, department_id |-> 1, car_id |-> 1])
    @@
    (2 :> [first_name |-> <<"B", "a", "b">>, last_name |-> <<"N", "a", "n">>,
           position |-> <<"b">>, department_id |-> 1, car_id |-> 1])

Init ==
    /\ departments = (1 :> [name |-> "QA"]) @@ (2 :> [name |-> "Dev"])
    /\ cars = (1 :> [brand |-> "Lada", model |-> "Niva"])
    /\ series = (1 :> [title |-> <<"B", "a", "n">>, rating |-> 8])
                @@ (2 :> [title |-> <<"A", "b", "a">>, rating |-> 9])
    /\ employees = InitialEmployees
    /\ employee_series = { [employee_id |-> 1, series_id |-> 1] }
    /\ employees_id_seq = 2
    /\ reqs = [r \in ReqIds |-> Idle]
    /\ hist = employees
    /\ request_count = 0

\* --------------------------------------------------- GET /employees

valid_sort_fields == <<"id", "first_name", "last_name", "position", "department_id">>

InSeq(x, sq) == \E i \in 1..Len(sq) : sq[i] = x

\* mutant: the detail names the field that was asked for, not the valid ones
InvalidSortField_noOptions(fields) ==
    Str([text |-> "Invalid sort field", joined |-> <<>>])

\* f"Invalid sort field. Valid options: {', '.join(valid_sort_fields)}"
InvalidSortField(fields) ==
    Str([text |-> "Invalid sort field. Valid options: ", joined |-> fields])

\* `if department_id:` -- None and 0 are both falsy
TruthyInt(o) == o # None /\ ValueOf(o) # 0
\* `if search:` -- None and "" are both falsy
TruthyStr(o) == o # None /\ ValueOf(o) # <<>>

\* the list `conditions` the handler builds
Conditions(q) ==
    (IF TruthyInt(q.department_id) THEN <<"e.department_id = :dept_id">> ELSE <<>>)
    \o
    (IF TruthyStr(q.search)
     THEN <<"(e.first_name ILIKE :search OR e.last_name ILIKE :search)">> ELSE <<>>)

\* mutant: the offset of the page after the one asked for
Params_offsetByPage(q) ==
    [limit |-> q.per_page,
     offset |-> q.page * q.per_page,
     dept_id |-> IF TruthyInt(q.department_id) THEN q.department_id ELSE None,
     search |-> IF TruthyStr(q.search) THEN q.search ELSE None]

\* the dict `params` the handler builds (an absent key is None)
Params(q) ==
    [limit |-> q.per_page,
     offset |-> (q.page - 1) * q.per_page,
     dept_id |-> IF TruthyInt(q.department_id) THEN q.department_id ELSE None,
     search |-> IF TruthyStr(q.search) THEN q.search ELSE None]

\* mutant: the COUNT query is bound without the search value
CountParams_dropsSearch(params) == [dept_id |-> params.dept_id, search |-> None]

\* {k: v for k, v in params.items() if k in ["dept_id", "search"]}
CountParams(params) == [dept_id |-> params.dept_id, search |-> params.search]

\* one condition of the WHERE clause on row e, with its bound values
CondHolds(c, e, p) ==
    CASE c = "e.department_id = :dept_id" ->
            p.dept_id # None /\ e.department_id = ValueOf(p.dept_id)
      [] c = "(e.first_name ILIKE :search OR e.last_name ILIKE :search)" ->
            /\ p.search # None
            /\ \/ ILike(e.first_name, ValueOf(p.search))
               \/ ILike(e.last_name, ValueOf(p.search))
      [] OTHER -> FALSE

\* " WHERE " + " AND ".join(conditions); no WHERE when the list is empty
Where(conds, e, p) == \A i \in 1..Len(conds) : CondHolds(conds[i], e, p)

\* the ids of the rows of employees the WHERE clause keeps
Matching(conds, p) == { i \in DOMAIN employees : Where(conds, employees[i], p) }

\* ORDER BY e.<sort_by>: row a may come before row b
KeyLeq(sort_by, a, b) ==
    CASE sort_by = "id" -> a <= b
      [] sort_by = "department_id" ->
            employees[a].department_id <= employees[b].department_id
      [] sort_by = "first_name" -> StrLeq(employees[a].first_name, employees[b].first_name)
      [] sort_by = "last_name" -> StrLeq(employees[a].last_name, employees[b].last_name)
      [] OTHER -> StrLeq(employees[a].position, employees[b].position)

\* every order the database may return the rows S in: rows with equal keys
\* come in any order
Orderings(S, sort_by, sort_order) ==
    { o \in [1..Cardinality(S) -> S] :
        /\ \A i, j \in 1..Cardinality(S) : i # j => o[i] # o[j]
        /\ \A i, j \in 1..Cardinality(S) :
              i < j => IF sort_order = "asc"
                       THEN KeyLeq(sort_by, o[i], o[j])
                       ELSE KeyLeq(sort_by, o[j], o[i]) }

\* str.upper() of the values of sort_order a client sends
Upper(so) ==
    CASE so = "asc" -> "ASC"
      [] so = "desc" -> "DESC"
      [] so = "asc nulls first" -> "ASC NULLS FIRST"
      [] so = "desc; drop table series" -> "DESC; DROP TABLE SERIES"
      [] so = "desc; delete from employee_series; commit" ->
            "DESC; DELETE FROM EMPLOYEE_SERIES; COMMIT"
      [] OTHER -> so

\* f" ORDER BY e.{sort_by} {sort_order.upper()}": the two pieces of text put
\* into the statement
OrderBy(sort_by, sort_order) == <<sort_by, Upper(sort_order)>>

\* LIMIT :limit OFFSET :offset of the ordered rows
LimitOffset(o, limit, offset) == SubSeq(o, offset + 1, Min(offset + limit, Len(o)))

\* SELECT COUNT(*) FROM employees e [WHERE ...]
CountQuery(conds, p) == Cardinality(Matching(conds, p))

\* mutant: a page too many when per_page divides the total
TotalPagesOf_floorPlusOne(total_count, per_page) == total_count \div per_page + 1

\* total_pages = (total_count + per_page - 1) // per_page if total_count > 0 else 1
TotalPagesOf(total_count, per_page) ==
    IF total_count > 0 THEN (total_count + per_page - 1) \div per_page ELSE 1

\* the "meta" object of the response
MetaOf(q, total_count) ==
    [page |-> q.page,
     per_page |-> q.per_page,
     total |-> total_count,
     total_pages |-> TotalPagesOf(total_count, q.per_page),
     has_next |-> q.page < TotalPagesOf(total_count, q.per_page),
     has_prev |-> q.page > 1,
     sorting |-> [by |-> q.sort_by, order |-> q.sort_order],
     filters |-> [department_id |-> q.department_id, search |-> q.search]]

\* Query(ge=1) of page, Query(ge=1, le=100) of per_page
ListParamsValid(q) == q.page >= 1 /\ q.per_page >= 1 /\ q.per_page <= PerPageLimit

\* the request arrives: parameters are bound and checked, then sort_by and
\* sort_order are checked by the handler, before any statement runs
Start_get_employees(r, q) ==
    /\ r \in Readers
    /\ reqs[r].kind = "idle"
    /\ reqs' = [reqs EXCEPT ![r] =
          IF ~ListParamsValid(q)
          THEN [Idle EXCEPT !.kind = "get_employees", !.pc = "done", !.in = q,
                            !.resp = RaiseValidation]
          ELSE IF ~InSeq(q.sort_by, valid_sort_fields)
          THEN [Idle EXCEPT !.kind = "get_employees", !.pc = "done", !.in = q,
                            !.resp = RaiseHTTP(HTTP_400,
                                        InvalidSortField(valid_sort_fields))]
          ELSE IF q.sort_order \notin {"asc", "desc"}
          THEN [Idle EXCEPT !.kind = "get_employees", !.pc = "done", !.in = q,
                            !.resp = RaiseHTTP(HTTP_400,
                                        Str("Invalid sort order. Use 'asc' or 'desc'"))]
          ELSE [Idle EXCEPT !.kind = "get_employees", !.pc = "main_query", !.in = q,
                            !.loc = [conditions |-> Conditions(q),
                                     params |-> Params(q),
                                     order_by |-> OrderBy(q.sort_by, q.sort_order)]]]
    /\ UNCHANGED <<tables, employees_id_seq, hist, request_count>>

\* result = db.execute(text(sql), params): the rows of one page, by id (a row
\* never changes while it exists and an id is never handed out twice)
get_employees_main_query(r) ==
    /\ reqs[r].kind = "get_employees" /\ reqs[r].pc = "main_query"
    /\ LET q == reqs[r].in
           loc == reqs[r].loc
       IN \E o \in Orderings(Matching(loc.conditions, loc.params),
                             q.sort_by, q.sort_order) :
            reqs' = [reqs EXCEPT ![r].pc = "count_query",
                       ![r].conns = 1,
                       ![r].loc = [conditions |-> loc.conditions,
                                   params |-> loc.params,
                                   order_by |-> loc.order_by,
                                   employees |-> LimitOffset(o, loc.params.limit,
                                                             loc.params.offset)],
                       ![r].obs = [seen |-> DOMAIN employees,
                                   matched |-> Cardinality(Matching(loc.conditions,
                                                                    loc.params))]]
    /\ UNCHANGED <<tables, employees_id_seq, hist, request_count>>

\* total_count = db.execute(text(count_sql), {...}).scalar() or 0, and the
\* response
get_employees_count_query(r) ==
    /\ reqs[r].kind = "get_employees" /\ reqs[r].pc = "count_query"
    /\ LET q == reqs[r].in
           loc == reqs[r].loc
           total_count == CountQuery(loc.conditions, CountParams(loc.params))
       IN reqs' = [reqs EXCEPT ![r].pc = "done",
                     ![r].loc = NoRec,
                     ![r].resp = [status |-> HTTP_200,
                                  meta |-> MetaOf(q, total_count),
                                  data |-> loc.employees],
                     ![r].obs = [quiet |-> (DOMAIN employees = reqs[r].obs.seen),
                                 matched |-> reqs[r].obs.matched,
                                 conditions |-> loc.conditions]]
    /\ UNCHANGED <<tables, employees_id_seq, hist, request_count>>

\* --------------------------------------------------- GET /employees/{id}

\* the row the SELECT of get_employee returns for employee i, as the dict the
\* handler builds from it: the columns d.id and c.id come after
\* e.department_id and e.car_id under the same names, so dict(zip(...)) keeps
\* the joined ids (NULL, when the LEFT JOIN finds no row)
EmployeeDict(i) ==
    LET e == employees[i]
    IN [id |-> i,
        first_name |-> e.first_name,
        last_name |-> e.last_name,
        position |-> e.position,
        department_name |-> IF e.department_id \in DOMAIN departments
                            THEN Some(departments[e.department_id].name) ELSE None,
        department_id |-> IF e.department_id \in DOMAIN departments
                          THEN Some(e.department_id) ELSE None,
        car_id |-> IF e.car_id \in DOMAIN cars THEN Some(e.car_id) ELSE None,
        favorite_series |-> { es.series_id : es \in
                                { x \in employee_series :
                                    x.employee_id = i /\ x.series_id \in DOMAIN series } }]

\* mutant: the detail names the row the query returned, and there is none
EmployeeNotFound_idOfRow(employee_id) ==
    Dict([error |-> "Employee not found",
          employee_id |-> 0,
          suggestion |-> "GET /employees"])

\* the detail of the 404: the id asked for and where to list the employees
EmployeeNotFound(employee_id) ==
    Dict([error |-> "Employee not found",
          employee_id |-> employee_id,
          suggestion |-> "GET /employees"])

\* the one SELECT of the handler and its response
get_employee(r, employee_id) ==
    /\ r \in Readers
    /\ reqs[r].kind = "idle"
    /\ reqs' = [reqs EXCEPT ![r] =
          [Idle EXCEPT !.kind = "get_employee", !.pc = "done",
                       !.in = [employee_id |-> employee_id],
                       !.conns = 1,
                       !.resp = IF employee_id \notin DOMAIN employees
                                THEN RaiseHTTP(HTTP_404,
                                               EmployeeNotFound(employee_id))
                                ELSE [status |-> HTTP_200,
                                      data |-> EmployeeDict(employee_id)]]]
    /\ UNCHANGED <<tables, employees_id_seq, hist, request_count>>

\* str(e): the text of the exception, which names the statement, its
\* parameters and the server it was sent to
ExceptionText(exc) ==
    "(" \o exc \o ") connection to server at 79.174.88.202 failed"

\* f"Internal server error: {str(e)}"
InternalServerErrorDetail(exc) ==
    Str("Internal server error: " \o ExceptionText(exc))

\* the SELECT raises exc: `except Exception as e` logs it and raises a 500
\* whose detail is built from the text of the exception
get_employee_fails(r, employee_id, exc) ==
    /\ r \in Readers
    /\ reqs[r].kind = "idle"
    /\ reqs' = [reqs EXCEPT ![r] =
          [Idle EXCEPT !.kind = "get_employee", !.pc = "done",
                       !.in = [employee_id |-> employee_id],
                       !.resp = RaiseHTTP(HTTP_500, InternalServerErrorDetail(exc)),
                       !.obs = [raised |-> [at |-> "select", exc |-> exc]]]]
    /\ UNCHANGED <<tables, employees_id_seq, hist, request_count>>

\* --------------------------------------------------- POST /employees

\* mutant: only the first character is checked for a digit
ValidateNameOk_firstCharOnly(v) == ~IsDigit(v[1])

\* EmployeeBase.validate_name: the name is refused when it holds a digit and
\* is title-cased otherwise
ValidateNameOk(v) == ~HasDigit(v)
ValidateName(v) == Title(v)

\* the Field(...) constraints of EmployeeBase and its validator
EmployeeValid(b) ==
    /\ Len(b.first_name) >= MinNameLen /\ Len(b.first_name) <= MaxTextLen
    /\ Len(b.last_name) >= MinNameLen /\ Len(b.last_name) <= MaxTextLen
    /\ Len(b.position) <= MaxTextLen
    /\ b.department_id > 0
    /\ b.car_id > 0
    /\ ValidateNameOk(b.first_name)
    /\ ValidateNameOk(b.last_name)

\* the EmployeeCreate object the handler receives: employee.dict()
EmployeeOf(b) ==
    [first_name |-> ValidateName(b.first_name),
     last_name |-> ValidateName(b.last_name),
     position |-> b.position,
     department_id |-> b.department_id,
     car_id |-> b.car_id]

\* the body is validated before the handler is called
Start_create_employee(r, b) ==
    /\ reqs[r].kind = "idle"
    /\ reqs' = [reqs EXCEPT ![r] =
          IF ~EmployeeValid(b)
          THEN [Idle EXCEPT !.kind = "create_employee", !.pc = "done",
                            !.in = [body |-> b],
                            !.resp = RaiseValidation,
                            !.obs = [ids_before |-> DOMAIN hist]]
          ELSE [Idle EXCEPT !.kind = "create_employee", !.pc = "check_department",
                            !.in = [body |-> b],
                            !.loc = [employee |-> EmployeeOf(b)],
                            !.tx = NoTx,
                            !.obs = [ids_before |-> DOMAIN hist]]]
    /\ UNCHANGED <<tables, employees_id_seq, hist, request_count>>

\* mutant: without `except HTTPException: raise` the HTTPException falls into
\* `except Exception` and becomes a 500
CreateRaiseHTTP_swallowed(status_code, error) ==
    RaiseHTTP(HTTP_500, Str("Internal server error"))

\* raise HTTPException(400, ...) inside the try: `except HTTPException: raise`
\* passes it on as it is
CreateRaiseHTTP(status_code, error) == RaiseHTTP(status_code, Dict([error |-> error]))

\* 1. SELECT id, name FROM departments WHERE id = :id
create_check_department(r) ==
    /\ reqs[r].kind = "create_employee" /\ reqs[r].pc = "check_department"
    /\ LET e == reqs[r].loc.employee
       IN reqs' = [reqs EXCEPT ![r] =
             IF e.department_id \notin DOMAIN departments
             THEN [@ EXCEPT !.pc = "done", !.loc = NoRec, !.tx = NoRec,
                            !.conns = 1,
                            !.resp = CreateRaiseHTTP(HTTP_400, "Department not found")]
             ELSE [@ EXCEPT !.pc = "check_car",
                            !.conns = 1,
                            !.loc = [employee |-> e,
                                     department_exists |->
                                        departments[e.department_id]]]]
    /\ UNCHANGED <<tables, employees_id_seq, hist, request_count>>

\* 2. SELECT id, brand, model FROM cars WHERE id = :id
create_check_car(r) ==
    /\ reqs[r].kind = "create_employee" /\ reqs[r].pc = "check_car"
    /\ LET e == reqs[r].loc.employee
       IN reqs' = [reqs EXCEPT ![r] =
             IF e.car_id \notin DOMAIN cars
             THEN [@ EXCEPT !.pc = "done", !.loc = NoRec, !.tx = NoRec,
                            !.resp = CreateRaiseHTTP(HTTP_400, "Car not found")]
             ELSE [@ EXCEPT !.pc = "insert",
                            !.loc = [employee |-> e,
                                     department_exists |-> reqs[r].loc.department_exists,
                                     car_exists |-> cars[e.car_id]]]]
    /\ UNCHANGED <<tables, employees_id_seq, hist, request_count>>

\* mutant: the row is stored without its department
InsertedRow_noDepartment(e) ==
    [first_name |-> e.first_name, last_name |-> e.last_name,
     position |-> e.position, department_id |-> 0,
     car_id |-> e.car_id]

\* mutant: the VALUES list binds the names the wrong way round
InsertedRow_namesSwapped(e) ==
    [first_name |-> e.last_name, last_name |-> e.first_name,
     position |-> e.position, department_id |-> e.department_id,
     car_id |-> e.car_id]

\* the row INSERT INTO employees (...) VALUES (...) stores for `employee`
InsertedRow(e) ==
    [first_name |-> e.first_name, last_name |-> e.last_name,
     position |-> e.position, department_id |-> e.department_id,
     car_id |-> e.car_id]

\* 3. INSERT ... RETURNING: the id comes from the sequence, which is never
\* rolled back; the row is in the session's transaction until the commit
create_insert(r) ==
    /\ reqs[r].kind = "create_employee" /\ reqs[r].pc = "insert"
    /\ employees_id_seq < MaxSeq
    /\ LET e == reqs[r].loc.employee
           id == employees_id_seq + 1
       IN /\ employees_id_seq' = id
          /\ reqs' = [reqs EXCEPT ![r].pc = "commit",
                        ![r].tx = [@ EXCEPT !.ins = (id :> InsertedRow(e))],
                        ![r].loc = [employee |-> e,
                                    department_exists |-> reqs[r].loc.department_exists,
                                    car_exists |-> reqs[r].loc.car_exists,
                                    result |-> [id |-> id] @@ InsertedRow(e)]]
    /\ UNCHANGED <<tables, hist, request_count>>

\* the tables after a session's transaction is committed
CommitEmployees(tx) ==
    Restrict(tx.ins @@ employees, (DOMAIN employees \cup DOMAIN tx.ins) \ tx.delEmp)

CommitEmployeeSeries(tx) == employee_series \ tx.delSeries

\* db.commit()
Commit(r) ==
    /\ employees' = CommitEmployees(reqs[r].tx)
    /\ employee_series' = CommitEmployeeSeries(reqs[r].tx)
    /\ hist' = reqs[r].tx.ins @@ hist
    /\ UNCHANGED <<departments, cars, series, employees_id_seq, request_count>>

create_commit(r) ==
    /\ reqs[r].kind = "create_employee" /\ reqs[r].pc = "commit"
    /\ Commit(r)
    /\ reqs' = [reqs EXCEPT ![r].pc = "fetch", ![r].tx = NoTx, ![r].conns = 0]

\* new_employee = result.fetchone() and the 201 response
create_fetch(r) ==
    /\ reqs[r].kind = "create_employee" /\ reqs[r].pc = "fetch"
    /\ LET loc == reqs[r].loc
       IN reqs' = [reqs EXCEPT ![r].pc = "done", ![r].loc = NoRec, ![r].tx = NoRec,
                     ![r].resp = [status |-> HTTP_201,
                                  data |-> loc.result,
                                  metadata |-> [department |-> loc.department_exists.name,
                                                car |-> loc.car_exists]]]
    /\ UNCHANGED <<tables, employees_id_seq, hist, request_count>>

\* `except SQLAlchemyError`: db.rollback() and a 500 with a fixed message
CreateDatabaseError ==
    RaiseHTTP(HTTP_500, Str("Database error while creating employee"))

\* a statement of the handler raises exc, an SQLAlchemyError: one of the two
\* SELECTs, the INSERT (which may also violate a constraint of the table,
\* after the sequence has handed out the id) or the commit. The transaction
\* is rolled back.
create_statement_fails(r, exc) ==
    /\ reqs[r].kind = "create_employee"
    /\ reqs[r].pc \in {"check_department", "check_car", "insert", "commit"}
    /\ exc = "IntegrityError" => reqs[r].pc = "insert" /\ employees_id_seq < MaxSeq
    /\ employees_id_seq' = IF exc = "IntegrityError"
                           THEN employees_id_seq + 1 ELSE employees_id_seq
    /\ reqs' = [reqs EXCEPT ![r].pc = "done", ![r].loc = NoRec, ![r].tx = NoRec,
                  ![r].conns = 0,
                  ![r].resp = CreateDatabaseError,
                  ![r].obs = [ids_before |-> reqs[r].obs.ids_before,
                              raised |-> [at |-> reqs[r].pc, exc |-> exc]]]
    /\ UNCHANGED <<tables, hist, request_count>>

\* result.fetchone() raises after the commit: the rollback undoes nothing
create_fetch_fails(r) ==
    /\ reqs[r].kind = "create_employee" /\ reqs[r].pc = "fetch"
    /\ reqs' = [reqs EXCEPT ![r].pc = "done", ![r].loc = NoRec, ![r].tx = NoRec,
                  ![r].conns = 0,
                  ![r].resp = CreateDatabaseError,
                  ![r].obs = [ids_before |-> reqs[r].obs.ids_before,
                              raised |-> [at |-> "fetch",
                                          exc |-> "ResourceClosedError"]]]
    /\ UNCHANGED <<tables, employees_id_seq, hist, request_count>>

\* --------------------------------------------------- DELETE /employees/{id}

Start_delete_employee(r, employee_id) ==
    /\ reqs[r].kind = "idle"
    /\ reqs' = [reqs EXCEPT ![r] =
          [Idle EXCEPT !.kind = "delete_employee", !.pc = "lookup",
                       !.in = [employee_id |-> employee_id],
                       !.tx = NoTx,
                       !.obs = [existed |-> employee_id \in DOMAIN employees]]]
    /\ UNCHANGED <<tables, employees_id_seq, hist, request_count>>

\* SELECT e.first_name, e.last_name, e.position, d.name ... WHERE e.id = :id
EmployeeInfo(i) ==
    [first_name |-> employees[i].first_name,
     last_name |-> employees[i].last_name,
     position |-> employees[i].position,
     department_name |-> IF employees[i].department_id \in DOMAIN departments
                         THEN Some(departments[employees[i].department_id].name)
                         ELSE None]

delete_lookup(r) ==
    /\ reqs[r].kind = "delete_employee" /\ reqs[r].pc = "lookup"
    /\ LET id == reqs[r].in.employee_id
       IN reqs' = [reqs EXCEPT ![r] =
             IF id \notin DOMAIN employees
             THEN [@ EXCEPT !.pc = "done", !.tx = NoRec,
                            !.conns = 1,
                            !.resp = RaiseHTTP(HTTP_404,
                                        Dict([error |-> "Employee not found",
                                              employee_id |-> id,
                                              suggestion |-> "GET /employees"]))]
             ELSE [@ EXCEPT !.pc = "delete_series",
                            !.conns = 1,
                            !.loc = [employee_info |-> EmployeeInfo(id)]]]
    /\ UNCHANGED <<tables, employees_id_seq, hist, request_count>>

\* the rows another session has deleted and not yet committed are locked: a
\* DELETE that meets one waits for that session to end
LockedSeries(r) ==
    UNION { reqs[o].tx.delSeries : o \in { x \in ReqIds \ {r} : reqs[x].tx # NoRec } }

LockedEmployees(r) ==
    UNION { reqs[o].tx.delEmp : o \in { x \in ReqIds \ {r} : reqs[x].tx # NoRec } }

\* mutant: the DELETE on the join table matches no row
SeriesRowsOf_none(id) == {}

\* the rows DELETE FROM employee_series WHERE employee_id = :id removes
SeriesRowsOf(id) == { es \in employee_series : es.employee_id = id }

delete_series(r) ==
    /\ reqs[r].kind = "delete_employee" /\ reqs[r].pc = "delete_series"
    /\ LET id == reqs[r].in.employee_id
       IN /\ SeriesRowsOf(id) \cap LockedSeries(r) = {}
          /\ reqs' = [reqs EXCEPT ![r].pc = "delete_row",
                        ![r].tx = [@ EXCEPT !.delSeries = SeriesRowsOf(id)]]
    /\ UNCHANGED <<tables, employees_id_seq, hist, request_count>>

\* mutant: the DELETE matches no row
DeletedIds_none(id) == {}

\* DELETE FROM employees WHERE id = :id RETURNING id: the ids it returns
DeletedIds(id) == IF id \in DOMAIN employees THEN {id} ELSE {}

delete_row(r) ==
    /\ reqs[r].kind = "delete_employee" /\ reqs[r].pc = "delete_row"
    /\ LET id == reqs[r].in.employee_id
       IN /\ id \notin LockedEmployees(r)
          /\ reqs' = [reqs EXCEPT ![r].pc = "commit",
                        ![r].tx = [@ EXCEPT !.delEmp = DeletedIds(id)],
                        ![r].loc = [employee_info |-> reqs[r].loc.employee_info,
                                    result |-> DeletedIds(id)]]
    /\ UNCHANGED <<tables, employees_id_seq, hist, request_count>>

delete_commit(r) ==
    /\ reqs[r].kind = "delete_employee" /\ reqs[r].pc = "commit"
    /\ Commit(r)
    /\ reqs' = [reqs EXCEPT ![r].pc = "fetch", ![r].tx = NoTx, ![r].conns = 0]

\* deleted_id = result.scalar() (None when the DELETE returned no row) and
\* the 200 response
delete_fetch(r) ==
    /\ reqs[r].kind = "delete_employee" /\ reqs[r].pc = "fetch"
    /\ LET loc == reqs[r].loc
       IN reqs' = [reqs EXCEPT ![r].pc = "done", ![r].loc = NoRec, ![r].tx = NoRec,
                     ![r].resp = [status |-> HTTP_200,
                                  deleted_employee |->
                                     [id |-> loc.result,
                                      name |-> <<loc.employee_info.first_name,
                                                 loc.employee_info.last_name>>,
                                      position |-> loc.employee_info.position,
                                      department |-> loc.employee_info.department_name]]]
    /\ UNCHANGED <<tables, employees_id_seq, hist, request_count>>

\* --------------------------------------------------- GET /series

series_valid_sort_fields == <<"rating", "title", "fans">>

\* Query(ge=0, le=10) of min_rating and max_rating
SeriesParamsValid(q) ==
    /\ q.min_rating # None => (ValueOf(q.min_rating) >= 0 /\ ValueOf(q.min_rating) <= 10)
    /\ q.max_rating # None => (ValueOf(q.max_rating) >= 0 /\ ValueOf(q.max_rating) <= 10)

\* the text the handler puts after ORDER BY: "fans_count <order>, s.rating
\* DESC" for fans, "s.<sort_by> <order>" otherwise
SeriesOrderBy(sort_by, sort_order) ==
    IF sort_by = "fans"
    THEN <<"fans_count", Upper(sort_order), "s.rating DESC">>
    ELSE <<sort_by, Upper(sort_order)>>

\* what PostgreSQL makes of the text after the column: an ascending or a
\* descending order, or a statement that fails (a second statement after ";"
\* leaves a result without rows, or does not parse)
DirectionOf(order) ==
    CASE order \in {"ASC", "ASC NULLS FIRST"} -> "asc"
      [] order = "DESC" -> "desc"
      [] OTHER -> "error"

\* the statements the text after the column adds to the SELECT, after ";":
\* the driver sends the whole text to the server, which runs the statements
\* one after the other in the transaction of the session
StatementsAfter(order) ==
    CASE order = "DESC; DROP TABLE SERIES" -> <<"DROP TABLE SERIES">>
      [] order = "DESC; DELETE FROM EMPLOYEE_SERIES; COMMIT" ->
            <<"DELETE FROM EMPLOYEE_SERIES", "COMMIT">>
      [] OTHER -> <<>>

\* the table employee_series after the statements: a DELETE that a COMMIT
\* follows has emptied it; what no COMMIT follows is rolled back when the
\* session is closed
EmployeeSeriesAfter(statements) ==
    IF \E i, j \in DOMAIN statements :
          /\ i < j
          /\ statements[i] = "DELETE FROM EMPLOYEE_SERIES"
          /\ statements[j] = "COMMIT"
    THEN {}
    ELSE employee_series

\* the WHERE clause: a rating filter is applied when it is not None
SeriesMatching(q) ==
    { i \in DOMAIN series :
        /\ q.min_rating # None => series[i].rating >= ValueOf(q.min_rating)
        /\ q.max_rating # None => series[i].rating <= ValueOf(q.max_rating) }

\* COUNT(es.employee_id) of the group of series i
FansCount(i) == Cardinality({ es \in employee_series : es.series_id = i })

\* the first three of the names STRING_AGG(DISTINCT ...) joins
SampleFans(i) ==
    LET names == { <<employees[es.employee_id].first_name,
                     employees[es.employee_id].last_name>> :
                     es \in { x \in employee_series :
                                x.series_id = i /\ x.employee_id \in DOMAIN employees } }
    IN IF Cardinality(names) <= 3 THEN names
       ELSE CHOOSE T \in SUBSET names : Cardinality(T) = 3

SeriesRow(i) ==
    [id |-> i, title |-> series[i].title, rating |-> series[i].rating,
     fans_count |-> FansCount(i), sample_fans |-> SampleFans(i)]

\* ORDER BY: series a may come before series b
SeriesKeyLeq(sort_by, a, b) ==
    CASE sort_by = "rating" -> series[a].rating <= series[b].rating
      [] sort_by = "title" -> StrLeq(series[a].title, series[b].title)
      [] OTHER -> FansCount(a) <= FansCount(b)

SeriesBefore(sort_by, dir, a, b) ==
    LET fwd == IF dir = "asc" THEN SeriesKeyLeq(sort_by, a, b)
               ELSE SeriesKeyLeq(sort_by, b, a)
        back == IF dir = "asc" THEN SeriesKeyLeq(sort_by, b, a)
                ELSE SeriesKeyLeq(sort_by, a, b)
    IN /\ fwd
       /\ (sort_by = "fans" /\ back) => series[a].rating >= series[b].rating

SeriesOrderings(S, sort_by, dir) ==
    { o \in [1..Cardinality(S) -> S] :
        /\ \A i, j \in 1..Cardinality(S) : i # j => o[i] # o[j]
        /\ \A i, j \in 1..Cardinality(S) :
              i < j => SeriesBefore(sort_by, dir, o[i], o[j]) }

\* response_model=List[Dict[str, Any]]: the value the handler returns is
\* validated as a list
SeriesResponseModelAccepts(returned) == returned.type = "list"

\* the route's answer for the value the handler returned: a value the
\* response model refuses raises in FastAPI, outside the handler's try
SeriesReturn(returned) ==
    IF SeriesResponseModelAccepts(returned)
    THEN [status |-> HTTP_200, content |-> returned]
    ELSE [status |-> HTTP_500, exc |-> "ResponseValidationError"]

\* the request arrives: the ratings are checked at binding, sort_by by the
\* handler; sort_order is not checked
Start_get_series(r, q) ==
    /\ r \in Readers
    /\ reqs[r].kind = "idle"
    /\ reqs' = [reqs EXCEPT ![r] =
          IF ~SeriesParamsValid(q)
          THEN [Idle EXCEPT !.kind = "get_series", !.pc = "done", !.in = q,
                            !.resp = RaiseValidation]
          ELSE IF ~InSeq(q.sort_by, series_valid_sort_fields)
          THEN [Idle EXCEPT !.kind = "get_series", !.pc = "done", !.in = q,
                            !.resp = RaiseHTTP(HTTP_400,
                                        InvalidSortField(series_valid_sort_fields))]
          ELSE [Idle EXCEPT !.kind = "get_series", !.pc = "query", !.in = q,
                            !.loc = [order_by |->
                                        SeriesOrderBy(q.sort_by, q.sort_order)]]]
    /\ UNCHANGED <<tables, employees_id_seq, hist, request_count>>

\* result = db.execute(text(sql), params), the rows, and the value returned;
\* a statement that fails is an SQLAlchemyError, answered 500
get_series_query(r) ==
    /\ reqs[r].kind = "get_series" /\ reqs[r].pc = "query"
    /\ LET q == reqs[r].in
           dir == DirectionOf(Upper(q.sort_order))
       IN IF dir = "error"
          THEN reqs' = [reqs EXCEPT ![r].pc = "done", ![r].conns = 1,
                          ![r].resp = RaiseHTTP(HTTP_500,
                                         Str("Database error while fetching series"))]
          ELSE \E o \in SeriesOrderings(SeriesMatching(q), q.sort_by, dir) :
                 reqs' = [reqs EXCEPT ![r].pc = "done", ![r].conns = 1,
                            ![r].resp = SeriesReturn(
                               Dict([data |-> [i \in DOMAIN o |-> SeriesRow(o[i])],
                                     metadata |->
                                        [total_series |-> Len(o),
                                         filters_applied |->
                                            [min_rating |-> q.min_rating,
                                             max_rating |-> q.max_rating,
                                             sort_by |-> q.sort_by,
                                             sort_order |-> q.sort_order]]]))]
    /\ employee_series' =
          EmployeeSeriesAfter(StatementsAfter(Upper(reqs[r].in.sort_order)))
    /\ UNCHANGED <<employees, departments, cars, series, employees_id_seq, hist,
                   request_count>>

\* `except SQLAlchemyError`: db.rollback() and a 500 with a fixed message
DeleteDatabaseError ==
    RaiseHTTP(HTTP_500, Str("Database error while deleting employee"))

\* a statement of the handler raises an SQLAlchemyError: the SELECT, one of
\* the two DELETEs or the commit. The transaction is rolled back.
delete_statement_fails(r) ==
    /\ reqs[r].kind = "delete_employee"
    /\ reqs[r].pc \in {"lookup", "delete_series", "delete_row", "commit"}
    /\ reqs' = [reqs EXCEPT ![r].pc = "done", ![r].loc = NoRec, ![r].tx = NoRec,
                  ![r].conns = 0,
                  ![r].resp = DeleteDatabaseError,
                  ![r].obs = [existed |-> reqs[r].obs.existed,
                              raised |-> [at |-> reqs[r].pc,
                                          exc |-> "OperationalError"]]]
    /\ UNCHANGED <<tables, employees_id_seq, hist, request_count>>

\* result.scalar() raises after the commit: the rollback undoes nothing
delete_fetch_fails(r) ==
    /\ reqs[r].kind = "delete_employee" /\ reqs[r].pc = "fetch"
    /\ reqs' = [reqs EXCEPT ![r].pc = "done", ![r].loc = NoRec, ![r].tx = NoRec,
                  ![r].conns = 0,
                  ![r].resp = DeleteDatabaseError,
                  ![r].obs = [existed |-> reqs[r].obs.existed,
                              raised |-> [at |-> "fetch",
                                          exc |-> "ResourceClosedError"]]]
    /\ UNCHANGED <<tables, employees_id_seq, hist, request_count>>

\* --------------------------------------------------- the connection pool

RECURSIVE SumConns(_)
SumConns(S) ==
    IF S = {} THEN 0
    ELSE LET r == CHOOSE x \in S : TRUE
         IN reqs[r].conns + SumConns(S \ {r})

\* the connections checked out of the engine's pool
CheckedOut == SumConns(DOMAIN reqs)

\* mutant: the pool opens a connection for whoever asks
PoolHasRoom_unbounded == TRUE

\* QueuePool hands out a connection while fewer than pool_size + max_overflow
\* are checked out; otherwise the caller waits, for pool_timeout seconds at
\* most
PoolHasRoom == CheckedOut < pool_size + max_overflow

\* --------------------------------------------------- GET /health

\* for table in tables[:5]
SampleSize == 5

\* SELECT COUNT(*) FROM <table>
RowCount(table) ==
    CASE table = "employees" -> Cardinality(DOMAIN employees)
      [] table = "employee_series" -> Cardinality(employee_series)
      [] table = "departments" -> Cardinality(DOMAIN departments)
      [] table = "cars" -> Cardinality(DOMAIN cars)
      [] table = "series" -> Cardinality(DOMAIN series)
      [] OTHER -> 0

\* the dict health_data as the handler first builds it
InitialHealthData == [status |-> "healthy", database |-> Str("connected")]

\* the first table with the largest count above 0 among the int counts of
\* stats, a sequence of [table, count] in the order of insertion
LargestTable(stats) ==
    LET ints == { i \in 1..Len(stats) :
                    stats[i].count.type = "int" /\ stats[i].count.value > 0 }
    IN IF ints = {} THEN None
       ELSE LET m == CHOOSE i \in ints :
                        /\ \A j \in ints : stats[j].count.value <= stats[i].count.value
                        /\ \A j \in ints :
                              stats[j].count.value = stats[i].count.value => i <= j
            IN Some([name |-> stats[m].table, records |-> stats[m].count.value])

\* health_data.update({...}) at the end of the try
HealthyData(table_names, stats) ==
    [status |-> "HEALTHY",
     database |-> Dict([status |-> "CONNECTED",
                        tables_available |-> Len(table_names),
                        available_tables |-> table_names,
                        sample_counts |-> stats,
                        largest_table |-> LargestTable(stats)]),
     api |-> [status |-> "RUNNING", total_requests |-> request_count]]

\* a connection URL as the pieces of its text; the piece "@" is the
\* character, which no other piece holds
DatabaseUrl(password) ==
    <<"postgresql://", "user1", ":">> \o password
       \o <<"@", "79.174.88.202:15539/WORK2025">>

\* os.getenv("DATABASE_URL", <default>): the default of the source
DATABASE_URL == DatabaseUrl(<<"Qa_2025!">>)

\* text.split(sep)[0]: the text before the first sep, all of it when it
\* holds none
SplitFirst(text, sep) ==
    LET at == { i \in DOMAIN text : text[i] = sep }
    IN IF at = {} THEN text
       ELSE SubSeq(text, 1, (CHOOSE i \in at : \A j \in at : i <= j) - 1)

\* DATABASE_URL.split('@')[0] + "@***"
ConnectionString(url) == SplitFirst(url, "@") \o <<"@***">>

\* health_data.update({...}) of `except SQLAlchemyError as e`
UnhealthyData(exc) ==
    [status |-> "UNHEALTHY",
     database |-> Dict([status |-> "DISCONNECTED",
                        error |-> ExceptionText(exc),
                        connection_string |-> ConnectionString(DATABASE_URL)])]

\* health_data.update({...}) of `except Exception`: "database" keeps its
\* first value
ErrorData == [status |-> "ERROR", database |-> InitialHealthData.database]

\* the except clause an exception of class exc reaches
HealthExcept(exc) ==
    IF exc \in {"OperationalError", "TimeoutError"} THEN UnhealthyData(exc)
    ELSE ErrorData

\* response_model=HealthResponse: `database: str`
HealthResponseAccepts(health_data) == health_data.database.type = "str"

\* return health_data under the response model: a value the model refuses
\* raises in FastAPI, after the handler has returned
HealthReturn(health_data) ==
    IF HealthResponseAccepts(health_data)
    THEN [status |-> HTTP_200, content |-> health_data]
    ELSE [status |-> HTTP_500, exc |-> "ResponseValidationError"]

Start_health_check(r) ==
    /\ reqs[r].kind = "idle"
    /\ reqs' = [reqs EXCEPT ![r] =
          [Idle EXCEPT !.kind = "health_check", !.pc = "probe",
                       !.loc = [health_data |-> InitialHealthData]]]
    /\ UNCHANGED <<tables, employees_id_seq, hist, request_count>>

\* db.execute(text("SELECT 1")): the session checks out its connection and
\* keeps it, the transaction being open
health_probe(r) ==
    /\ reqs[r].kind = "health_check" /\ reqs[r].pc = "probe"
    /\ PoolHasRoom
    /\ reqs' = [reqs EXCEPT ![r].pc = "inspect", ![r].conns = 1,
                  ![r].obs = [probe_ok |-> TRUE]]
    /\ UNCHANGED <<tables, employees_id_seq, hist, request_count>>

\* the probe raises: no connection, or a statement that fails
health_probe_fails(r, exc) ==
    /\ reqs[r].kind = "health_check" /\ reqs[r].pc = "probe"
    /\ reqs' = [reqs EXCEPT ![r].pc = "done", ![r].loc = NoRec,
                  ![r].resp = HealthReturn(HealthExcept(exc)),
                  ![r].obs = [probe_ok |-> FALSE, inspect_ok |-> FALSE,
                              health_data |-> HealthExcept(exc)]]
    /\ UNCHANGED <<tables, employees_id_seq, hist, request_count>>

\* inspector = inspect(engine); inspector.get_table_names(schema="public"):
\* the inspector runs its query on a connection of its own, checked out of
\* the engine's pool while the session holds the first one
health_inspect_begin(r) ==
    /\ reqs[r].kind = "health_check" /\ reqs[r].pc = "inspect"
    /\ PoolHasRoom
    /\ reqs' = [reqs EXCEPT ![r].pc = "inspecting", ![r].conns = @ + 1]
    /\ UNCHANGED <<tables, employees_id_seq, hist, request_count>>

\* pool_timeout=30: the pool is still exhausted when the wait of the session
\* or of the inspector for a connection is over; the pool raises TimeoutError,
\* an SQLAlchemyError, and the handler reports the database disconnected
health_pool_timeout(r) ==
    /\ reqs[r].kind = "health_check" /\ reqs[r].pc \in {"probe", "inspect"}
    /\ ~PoolHasRoom
    /\ reqs' = [reqs EXCEPT ![r].pc = "done", ![r].loc = NoRec,
                  ![r].resp = HealthReturn(HealthExcept("TimeoutError")),
                  ![r].obs = [probe_ok |-> (reqs[r].pc = "inspect"),
                              inspect_ok |-> FALSE,
                              health_data |-> HealthExcept("TimeoutError")]]
    /\ UNCHANGED <<tables, employees_id_seq, hist, request_count>>

\* the inspector returns the table names and its connection
health_inspect_end(r, table_names) ==
    /\ reqs[r].kind = "health_check" /\ reqs[r].pc = "inspecting"
    /\ reqs' = [reqs EXCEPT ![r].pc = "count", ![r].conns = @ - 1,
                  ![r].loc = [health_data |-> reqs[r].loc.health_data,
                              tables |-> table_names,
                              stats |-> <<>>,
                              aborted |-> FALSE],
                  ![r].obs = [probe_ok |-> TRUE, failed |-> {}]]
    /\ UNCHANGED <<tables, employees_id_seq, hist, request_count>>

\* the inspection raises
health_inspect_fails(r, exc) ==
    /\ reqs[r].kind = "health_check" /\ reqs[r].pc = "inspecting"
    /\ reqs' = [reqs EXCEPT ![r].pc = "done", ![r].conns = @ - 1, ![r].loc = NoRec,
                  ![r].resp = HealthReturn(HealthExcept(exc)),
                  ![r].obs = [probe_ok |-> TRUE, inspect_ok |-> FALSE,
                              health_data |-> HealthExcept(exc)]]
    /\ UNCHANGED <<tables, employees_id_seq, hist, request_count>>

\* one turn of the loop: SELECT COUNT(*) FROM {table}. After a statement of
\* the transaction has failed PostgreSQL refuses every further statement of
\* it (the transaction is aborted until it ends), so the COUNT raises and the
\* bare except stores "error"
health_count(r) ==
    /\ reqs[r].kind = "health_check" /\ reqs[r].pc = "count"
    /\ LET loc == reqs[r].loc
           i == Len(loc.stats) + 1
       IN /\ i <= Min(SampleSize, Len(loc.tables))
          /\ reqs' = [reqs EXCEPT ![r].loc.stats =
                Append(@, [table |-> loc.tables[i],
                           count |-> IF loc.aborted THEN Str("error")
                                     ELSE IntVal(RowCount(loc.tables[i]))])]
    /\ UNCHANGED <<tables, employees_id_seq, hist, request_count>>

\* the COUNT of this table fails of itself (a name that needs quoting, a
\* table the role may not read, a timeout)
health_count_fails(r) ==
    /\ reqs[r].kind = "health_check" /\ reqs[r].pc = "count"
    /\ LET loc == reqs[r].loc
           i == Len(loc.stats) + 1
       IN /\ i <= Min(SampleSize, Len(loc.tables))
          /\ ~loc.aborted
          /\ reqs' = [reqs EXCEPT
                ![r].loc.stats = Append(@, [table |-> loc.tables[i],
                                            count |-> Str("error")]),
                ![r].loc.aborted = TRUE,
                ![r].obs.failed = @ \cup {loc.tables[i]}]
    /\ UNCHANGED <<tables, employees_id_seq, hist, request_count>>

\* the loop is over: the largest table, the update of health_data, the return
health_report(r) ==
    /\ reqs[r].kind = "health_check" /\ reqs[r].pc = "count"
    /\ LET loc == reqs[r].loc
       IN /\ Len(loc.stats) = Min(SampleSize, Len(loc.tables))
          /\ reqs' = [reqs EXCEPT ![r].pc = "done", ![r].loc = NoRec,
                ![r].resp = HealthReturn(HealthyData(loc.tables, loc.stats)),
                ![r].obs = [probe_ok |-> TRUE, inspect_ok |-> TRUE,
                            failed |-> reqs[r].obs.failed,
                            health_data |-> HealthyData(loc.tables, loc.stats)]]
    /\ UNCHANGED <<tables, employees_id_seq, hist, request_count>>

\* --------------------------------------------------- GET /

\* mutant: the counter is written back as it was read
NextRequestCount_lostUpdate(count) == count

\* request_count += 1
NextRequestCount(count) == count + 1

\* the handler: it has no await, so no other handler of the process runs
\* between the read and the write of the global
root(r) ==
    /\ reqs[r].kind = "idle"
    /\ request_count < MaxRequests
    /\ request_count' = NextRequestCount(request_count)
    /\ reqs' = [reqs EXCEPT ![r] =
          [Idle EXCEPT !.kind = "root", !.pc = "done",
                       !.resp = [status |-> HTTP_200,
                                 content |-> [version |-> "1.0.0",
                                              total_requests |-> request_count']]]]
    /\ UNCHANGED <<tables, employees_id_seq, hist>>

\* --------------------------------------------------- GET /stats

Start_get_stats(r) ==
    /\ reqs[r].kind = "idle"
    /\ reqs' = [reqs EXCEPT ![r] = [Idle EXCEPT !.kind = "get_stats", !.pc = "queries"]]
    /\ UNCHANGED <<tables, employees_id_seq, hist, request_count>>

\* (SELECT COUNT(DISTINCT employee_id) FROM employee_series), by which the
\* statement on series divides for every series
StatsDivisor == Cardinality({ es.employee_id : es \in employee_series })

\* the COUNT of each table and the statements on departments, series and
\* cars; the one on series divides by zero when employee_series is empty, an
\* SQLAlchemyError that is answered 500
get_stats_queries(r) ==
    /\ reqs[r].kind = "get_stats" /\ reqs[r].pc = "queries"
    /\ reqs' = [reqs EXCEPT ![r] =
          IF DOMAIN series # {} /\ StatsDivisor = 0
          THEN [@ EXCEPT !.pc = "done", !.conns = 1,
                         !.resp = RaiseHTTP(HTTP_500,
                                     Str("Database error while collecting statistics"))]
          ELSE [@ EXCEPT !.pc = "report", !.conns = 1,
                         !.loc = [table_stats |->
                                    [t \in {"employees", "departments", "cars",
                                            "series", "employee_series"} |->
                                        RowCount(t)]]]]
    /\ UNCHANGED <<tables, employees_id_seq, hist, request_count>>

\* api_info, built after the statements, and the return
get_stats_report(r) ==
    /\ reqs[r].kind = "get_stats" /\ reqs[r].pc = "report"
    /\ reqs' = [reqs EXCEPT ![r].pc = "done", ![r].loc = NoRec,
                  ![r].resp = [status |-> HTTP_200,
                               statistics |-> [tables |-> reqs[r].loc.table_stats],
                               api_info |-> [total_requests |-> request_count]]]
    /\ UNCHANGED <<tables, employees_id_seq, hist, request_count>>

\* --------------------------------------------------- GET /db/tables

\* the handler runs no statement on its session: the inspector alone uses a
\* connection, for the time of each of its calls
Start_get_database_tables(r) ==
    /\ r \in Readers
    /\ reqs[r].kind = "idle"
    /\ reqs' = [reqs EXCEPT ![r] =
          [Idle EXCEPT !.kind = "get_database_tables", !.pc = "inspecting",
                       !.conns = 1]]
    /\ UNCHANGED <<tables, employees_id_seq, hist, request_count>>

\* the calls of the inspector return: the names, and for each table its
\* columns, primary key, foreign keys and indexes
get_database_tables_inspected(r, table_names) ==
    /\ reqs[r].kind = "get_database_tables" /\ reqs[r].pc = "inspecting"
    /\ reqs' = [reqs EXCEPT ![r].pc = "done", ![r].conns = 0,
                  ![r].resp = [status |-> HTTP_200,
                               database |-> [total_tables |-> Len(table_names)],
                               tables |-> [i \in DOMAIN table_names |->
                                             [name |-> table_names[i]]]]]
    /\ UNCHANGED <<tables, employees_id_seq, hist, request_count>>

\* a call of the inspector raises: `except Exception` answers 500
get_database_tables_fails(r) ==
    /\ reqs[r].kind = "get_database_tables" /\ reqs[r].pc = "inspecting"
    /\ reqs' = [reqs EXCEPT ![r].pc = "done", ![r].conns = 0,
                  ![r].resp = RaiseHTTP(HTTP_500,
                                        Str("Error retrieving database metadata"))]
    /\ UNCHANGED <<tables, employees_id_seq, hist, request_count>>

\* --------------------------------------------------- GET /test/error/{code}

\* sleep: Optional[int] = Query(None, ge=0, le=30)
SleepValid(sleep) == sleep = None \/ (ValueOf(sleep) >= 0 /\ ValueOf(sleep) <= 30)

\* `message or default`: a message that is None or empty is falsy
MessageOr(message, default) ==
    IF message # None /\ ValueOf(message) # "" THEN ValueOf(message) ELSE default

\* the dict error_messages, by status code
error_messages(message) ==
    (400 :> MessageOr(message, "Bad Request"))
    @@ (401 :> MessageOr(message, "Unauthorized"))
    @@ (403 :> MessageOr(message, "Forbidden"))
    @@ (404 :> MessageOr(message, "Not Found"))
    @@ (422 :> MessageOr(message, "Unprocessable Entity"))
    @@ (429 :> MessageOr(message, "Too Many Requests"))
    @@ (500 :> MessageOr(message, "Internal Server Error"))
    @@ (502 :> MessageOr(message, "Bad Gateway"))
    @@ (503 :> MessageOr(message, "Service Unavailable"))
    @@ (504 :> MessageOr(message, "Gateway Timeout"))

\* raise HTTPException(status_code=error_code, detail={...}, headers={...})
TestError(error_code, message) ==
    [status |-> error_code, exc |-> "HTTPException",
     detail |-> Dict([error_code |-> error_code,
                      error_message |-> error_messages(message)[error_code],
                      error_type |-> "TEST_ERROR"]),
     headers |-> ("X-Error-Test" :> "true")
                 @@ ("X-Test-Error-Code" :> ToString(error_code))
                 @@ ("X-Generated-At" :> "now")]

\* the dict returned for a code that is no key of error_messages
TestSuccess(error_code, message) ==
    [status |-> HTTP_200,
     content |-> [status |-> "success",
                  code |-> error_code,
                  message |-> MessageOr(message, "not an error code")]]

\* the handler, with the parameters error_code, message and sleep
test_error_endpoint(r, q) ==
    /\ r \in Readers
    /\ reqs[r].kind = "idle"
    /\ reqs' = [reqs EXCEPT ![r] =
          [Idle EXCEPT !.kind = "test_error_endpoint", !.pc = "done",
                       !.in = q,
                       !.resp = IF ~SleepValid(q.sleep) THEN RaiseValidation
                                ELSE IF q.error_code \in DOMAIN error_messages(q.message)
                                THEN TestError(q.error_code, q.message)
                                ELSE TestSuccess(q.error_code, q.message)]]
    /\ UNCHANGED <<tables, employees_id_seq, hist, request_count>>

\* --------------------------------------------------- GET /admin/clear-test-data

\* LIKE 'p%': the text starts with p
StartsWith(s, p) == Len(s) >= Len(p) /\ SubSeq(s, 1, Len(p)) = p

\* the WHERE clause of the DELETE: first_name IN (...) OR first_name LIKE
\* 'Test%' OR first_name LIKE '<Test in Cyrillic>%' (the Cyrillic letters are
\* written by their code points)
IsTestName(first_name) ==
    \/ first_name \in { <<"T", "e", "s", "t">>,
                         <<"u0422", "u0435", "u0441", "u0442">>,
                         <<"T", "e", "s", "t", "U", "s", "e", "r">>,
                         <<"u0422", "u0435", "u0441", "u0442", "u043E", "u0432",
                           "u044B", "u0439">> }
    \/ StartsWith(first_name, <<"T", "e", "s", "t">>)
    \/ StartsWith(first_name, <<"u0422", "u0435", "u0441", "u0442">>)

\* the aggregate functions of SQL
AggregateFunctions == {"COUNT(*)", "SUM", "MAX", "MIN", "AVG"}

\* PostgreSQL analyses a statement before it runs it, and refuses an
\* aggregate function in a RETURNING list ("aggregate functions are not
\* allowed in RETURNING")
ReturningAccepted(expression) == expression \notin AggregateFunctions

\* the whole handler: without confirm a 400; with it the DELETE ... RETURNING
\* COUNT(*), which the server refuses, so that `except SQLAlchemyError` rolls
\* back and raises the 500 and db.commit() is not reached
clear_test_data(r, confirm) ==
    /\ r \in Readers
    /\ reqs[r].kind = "idle"
    /\ reqs' = [reqs EXCEPT ![r] =
          [Idle EXCEPT !.kind = "clear_test_data", !.pc = "done",
                       !.in = [confirm |-> confirm],
                       !.resp =
                          IF ~confirm
                          THEN RaiseHTTP(HTTP_400,
                                  Dict([error |-> "Confirmation required",
                                        usage |-> "?confirm=true"]))
                          ELSE IF ReturningAccepted("COUNT(*)")
                          THEN [status |-> HTTP_200,
                                deleted_count |->
                                   Cardinality({ i \in DOMAIN employees :
                                      IsTestName(employees[i].first_name) })]
                          ELSE RaiseHTTP(HTTP_500,
                                  Str("Database error while clearing test data"))]]
    /\ employees' = IF confirm /\ ReturningAccepted("COUNT(*)")
                    THEN Restrict(employees,
                            { i \in DOMAIN employees :
                                ~IsTestName(employees[i].first_name) })
                    ELSE employees
    /\ UNCHANGED <<employee_series, departments, cars, series,
                   employees_id_seq, hist, request_count>>

\* --------------------------------------------------- the routes

\* the routes the application registers for the paths of the model, by the
\* decorators @app.get, @app.post and @app.delete
AppRoutes ==
    { <<"GET", "/health">>, <<"GET", "/employees">>, <<"POST", "/employees">>,
      <<"GET", "/employees/{employee_id}">>, <<"DELETE", "/employees/{employee_id}">>,
      <<"GET", "/series">>, <<"GET", "/db/tables">> }

\* a request for a path the application has, with a method no route of that
\* path accepts: the router raises Starlette's HTTPException 405 and no
\* handler is called
method_not_allowed(r, method, employee_id, body) ==
    /\ reqs[r].kind = "idle"
    /\ <<method, "/employees/{employee_id}">> \notin AppRoutes
    /\ reqs' = [reqs EXCEPT ![r] =
          [Idle EXCEPT !.kind = "method_not_allowed", !.pc = "done",
                       !.in = [method |-> method, employee_id |-> employee_id,
                               body |-> body],
                       !.resp = [status |-> 405, exc |-> "StarletteHTTPException",
                                 detail |-> Str("Method Not Allowed")]]]
    /\ UNCHANGED <<tables, employees_id_seq, hist, request_count>>

\* --------------------------------------------------- the error handlers

\* the Request object the handlers read: request.method, request.url.path
RequestOf(r) ==
    CASE reqs[r].kind = "get_employees" -> [method |-> "GET", path |-> "/employees"]
      [] reqs[r].kind = "create_employee" -> [method |-> "POST", path |-> "/employees"]
      [] reqs[r].kind = "get_employee" ->
            [method |-> "GET", path |-> <<"/employees", reqs[r].in.employee_id>>]
      [] reqs[r].kind = "delete_employee" ->
            [method |-> "DELETE", path |-> <<"/employees", reqs[r].in.employee_id>>]
      [] reqs[r].kind = "method_not_allowed" ->
            [method |-> reqs[r].in.method,
             path |-> <<"/employees", reqs[r].in.employee_id>>]
      [] reqs[r].kind = "get_series" -> [method |-> "GET", path |-> "/series"]
      [] reqs[r].kind = "health_check" -> [method |-> "GET", path |-> "/health"]
      [] reqs[r].kind = "root" -> [method |-> "GET", path |-> "/"]
      [] reqs[r].kind = "get_stats" -> [method |-> "GET", path |-> "/stats"]
      [] reqs[r].kind = "clear_test_data" ->
            [method |-> "GET", path |-> "/admin/clear-test-data"]
      [] reqs[r].kind = "test_error_endpoint" ->
            [method |-> "GET", path |-> <<"/test/error", reqs[r].in.error_code>>]
      [] OTHER -> [method |-> "GET", path |-> "/db/tables"]

\* mutant: the detail is passed on as it was raised
http_exception_handler_detailAsIs(request, exc) ==
    [status_code |-> exc.status,
     content |-> [error |-> TRUE,
                  status_code |-> exc.status,
                  detail |-> exc.detail,
                  path |-> request.path,
                  method |-> request.method,
                  timestamp |-> "now"],
     headers |-> IF "headers" \in DOMAIN exc THEN exc.headers ELSE <<>>]

\* @app.exception_handler(HTTPException): the JSONResponse it returns
http_exception_handler(request, exc) ==
    [status_code |-> exc.status,
     content |-> [error |-> TRUE,
                  status_code |-> exc.status,
                  detail |-> IF exc.detail.type = "dict"
                             THEN exc.detail
                             ELSE Dict([message |-> exc.detail.value]),
                  path |-> request.path,
                  method |-> request.method,
                  timestamp |-> "now"],
     headers |-> IF "headers" \in DOMAIN exc THEN exc.headers ELSE <<>>]

\* @app.exception_handler(Exception): the JSONResponse it returns
general_exception_handler(request, exc) ==
    [status_code |-> HTTP_500,
     content |-> [error |-> TRUE,
                  status_code |-> HTTP_500,
                  detail |-> Dict([message |-> "Internal server error",
                                   error_type |-> exc.exc,
                                   note |-> "This error has been logged for investigation"]),
                  path |-> request.path,
                  method |-> request.method,
                  timestamp |-> "now"]]

\* the response the client receives for what the route produced: a returned
\* value is sent with the status of the route; an exception goes to the
\* handler registered for its class (RequestValidationError and Starlette's
\* HTTPException, which the router raises, have the handlers FastAPI installs;
\* any other class falls to the handler of Exception)
ResponseOf(r) ==
    IF "exc" \notin DOMAIN reqs[r].resp
    THEN [status_code |-> reqs[r].resp.status, content |-> reqs[r].resp]
    ELSE CASE reqs[r].resp.exc = "HTTPException" ->
                 http_exception_handler(RequestOf(r), reqs[r].resp)
           [] reqs[r].resp.exc = "RequestValidationError" ->
                 [status_code |-> HTTP_422,
                  content |-> [detail |-> "RequestValidationError"]]
           [] reqs[r].resp.exc = "StarletteHTTPException" ->
                 [status_code |-> reqs[r].resp.status,
                  content |-> [detail |-> reqs[r].resp.detail.value]]
           [] OTHER -> general_exception_handler(RequestOf(r), reqs[r].resp)

\* the response has been sent and the slot takes the next request
Finish(r) ==
    /\ reqs[r].pc = "done"
    /\ reqs' = [reqs EXCEPT ![r] = Idle]
    /\ UNCHANGED <<tables, employees_id_seq, hist, request_count>>

\* a request arrives, with a query string of L or a body of C
Arrive(L, C) ==
    \/ \E r \in ReqIds, q \in L : Start_get_employees(r, q)
    \/ \E r \in ReqIds, i \in IdInputs : get_employee(r, i)
    \/ \E r \in ReqIds, b \in C : Start_create_employee(r, b)
    \/ \E r \in ReqIds, i \in IdInputs : Start_delete_employee(r, i)

\* a handler runs its next statement, or a response is sent
Proceed ==
    \/ \E r \in ReqIds : get_employees_main_query(r)
    \/ \E r \in ReqIds : get_employees_count_query(r)
    \/ \E r \in ReqIds : create_check_department(r)
    \/ \E r \in ReqIds : create_check_car(r)
    \/ \E r \in ReqIds : create_insert(r)
    \/ \E r \in ReqIds : create_commit(r)
    \/ \E r \in ReqIds : create_fetch(r)
    \/ \E r \in ReqIds : delete_lookup(r)
    \/ \E r \in ReqIds : delete_series(r)
    \/ \E r \in ReqIds : delete_row(r)
    \/ \E r \in ReqIds : delete_commit(r)
    \/ \E r \in ReqIds : delete_fetch(r)
    \/ \E r \in ReqIds : Finish(r)

\* the server: requests are handled concurrently, their statements interleave
Next ==
    \/ Arrive(ConcurrentListInputs, ConcurrentCreateInputs)
    \/ \E r \in ReqIds, confirm \in BOOLEAN : clear_test_data(r, confirm)
    \/ Proceed

Spec == Init /\ [][Next]_vars

\* one request at a time: a request arrives only when no other is being
\* handled or answered
NoneInFlight == \A r \in ReqIds : reqs[r].kind = "idle"

NextSeq ==
    \/ \E r \in ReqIds, q \in ListInputs : NoneInFlight /\ Start_get_employees(r, q)
    \/ \E r \in ReqIds, i \in IdInputs : NoneInFlight /\ get_employee(r, i)
    \/ \E r \in ReqIds, b \in CreateInputs : NoneInFlight /\ Start_create_employee(r, b)
    \/ \E r \in ReqIds, i \in IdInputs : NoneInFlight /\ Start_delete_employee(r, i)
    \/ \E r \in ReqIds, q \in SeriesInputs : NoneInFlight /\ Start_get_series(r, q)
    \/ \E r \in ReqIds : get_series_query(r)
    \/ \E r \in ReqIds, m \in UpdateMethods, i \in IdInputs, b \in UpdateInputs :
          NoneInFlight /\ method_not_allowed(r, m, i, b)
    \/ \E r \in ReqIds, q \in TestErrorInputs : NoneInFlight /\ test_error_endpoint(r, q)
    \/ \E r \in ReqIds, confirm \in BOOLEAN :
          NoneInFlight /\ clear_test_data(r, confirm)
    \/ \E r \in Readers : NoneInFlight /\ Start_get_stats(r)
    \/ \E r \in ReqIds : get_stats_queries(r)
    \/ \E r \in ReqIds : get_stats_report(r)
    \/ Proceed

SpecSeq == Init /\ [][NextSeq]_vars

\* one request at a time, and the database may fail a statement
NextFault ==
    \/ NextSeq
    \/ \E r \in ReqIds, exc \in {"OperationalError", "IntegrityError"} :
          create_statement_fails(r, exc)
    \/ \E r \in ReqIds : create_fetch_fails(r)
    \/ \E r \in ReqIds : delete_statement_fails(r)
    \/ \E r \in ReqIds : delete_fetch_fails(r)
    \/ \E r \in Readers : NoneInFlight /\ Start_health_check(r)
    \/ \E r \in ReqIds : health_probe(r)
    \/ \E r \in ReqIds, exc \in HealthFaults : health_probe_fails(r, exc)
    \/ \E r \in ReqIds : health_inspect_begin(r)
    \/ \E r \in ReqIds, t \in TableListInputs : health_inspect_end(r, t)
    \/ \E r \in ReqIds, exc \in HealthFaults : health_inspect_fails(r, exc)
    \/ \E r \in ReqIds : health_count(r)
    \/ \E r \in ReqIds : health_count_fails(r)
    \/ \E r \in ReqIds : health_report(r)
    \/ \E r \in ReqIds : NoneInFlight /\ Start_get_database_tables(r)
    \/ \E r \in ReqIds, t \in TableListInputs : get_database_tables_inspected(r, t)
    \/ \E r \in ReqIds : get_database_tables_fails(r)
    \/ \E r \in ReqIds, i \in IdInputs, exc \in HealthFaults :
          NoneInFlight /\ get_employee_fails(r, i, exc)

SpecFault == Init /\ [][NextFault]_vars

\* GET /, GET /stats, GET /health and GET /employees/{id} handled
\* concurrently
NextCount ==
    \/ \E r \in ReqIds : root(r)
    \/ \E r \in ReqIds : Start_get_stats(r)
    \/ \E r \in ReqIds : get_stats_queries(r)
    \/ \E r \in ReqIds : get_stats_report(r)
    \/ \E r \in ReqIds : Start_health_check(r)
    \/ \E r \in ReqIds : health_probe(r)
    \/ \E r \in ReqIds : health_inspect_begin(r)
    \/ \E r \in ReqIds, t \in TableListInputs : health_inspect_end(r, t)
    \/ \E r \in ReqIds : health_count(r)
    \/ \E r \in ReqIds : health_report(r)
    \/ \E r \in ReqIds, i \in IdInputs : get_employee(r, i)
    \/ \E r \in ReqIds : Finish(r)

SpecCount == Init /\ [][NextCount]_vars

\* the requests of GET /health the server handles at the same time: one more
\* than the pool has connections
PoolReqIds == {"r1", "r2", "r3"}

InitPool ==
    /\ departments = (1 :> [name |-> "QA"]) @@ (2 :> [name |-> "Dev"])
    /\ cars = (1 :> [brand |-> "Lada", model |-> "Niva"])
    /\ series = (1 :> [title |-> <<"B", "a", "n">>, rating |-> 8])
                @@ (2 :> [title |-> <<"A", "b", "a">>, rating |-> 9])
    /\ employees = InitialEmployees
    /\ employee_series = { [employee_id |-> 1, series_id |-> 1] }
    /\ employees_id_seq = 2
    /\ reqs = [r \in PoolReqIds |-> Idle]
    /\ hist = employees
    /\ request_count = 0

\* the steps of the GET /health request of slot r, once it has arrived
HealthStep(r) ==
    \/ health_probe(r)
    \/ health_inspect_begin(r)
    \/ health_pool_timeout(r)
    \/ \E t \in TableListInputs : health_inspect_end(r, t)
    \/ health_count(r)
    \/ health_report(r)
    \/ Finish(r)

\* GET /health requests handled concurrently on the one pool
NextPool ==
    \/ \E r \in PoolReqIds : Start_health_check(r)
    \/ \E r \in PoolReqIds : health_probe(r)
    \/ \E r \in PoolReqIds : health_inspect_begin(r)
    \/ \E r \in PoolReqIds : health_pool_timeout(r)
    \/ \E r \in PoolReqIds, t \in TableListInputs : health_inspect_end(r, t)
    \/ \E r \in PoolReqIds : health_count(r)
    \/ \E r \in PoolReqIds : health_report(r)
    \/ \E r \in PoolReqIds : Finish(r)

\* every request is scheduled: a handler that can take a step takes it, and
\* a wait for a connection ends with the connection or with the timeout
SpecPool ==
    InitPool /\ [][NextPool]_vars /\ \A r \in PoolReqIds : WF_vars(HealthStep(r))

\* ------------------------------------------------------------ properties

\* ceil(a / b) for a >= 0 and b >= 1: the least k with k * b >= a
CeilDiv(a, b) == CHOOSE k \in 0..a : k * b >= a /\ \A j \in 0..(k - 1) : j * b < a

\* the requests that hold a 200 response of GET /employees
Listed == { r \in ReqIds : /\ reqs[r].kind = "get_employees"
                           /\ reqs[r].pc = "done"
                           /\ reqs[r].resp.status = HTTP_200 }

\* C1 as stated: in every GET /employees response, for every total including
\* 0, total_pages = ceil(total / per_page) and has_next = (page < total_pages).
C1_TotalPagesIsCeil ==
    \A r \in Listed :
        LET m == reqs[r].resp.meta
        IN /\ m.page >= 1 /\ m.per_page >= 1 /\ m.per_page <= PerPageLimit
           /\ m.total_pages = CeilDiv(m.total, m.per_page)
           /\ m.has_next = (m.page < m.total_pages)

\* C1 amended: in every GET /employees response total_pages is
\* ceil(total / per_page) when total > 0 and 1 when total = 0, and has_next =
\* (page < total_pages).
C1_TotalPagesIsCeilOrOne ==
    \A r \in Listed :
        LET m == reqs[r].resp.meta
        IN /\ m.page >= 1 /\ m.per_page >= 1 /\ m.per_page <= PerPageLimit
           /\ m.total_pages = IF m.total = 0 THEN 1 ELSE CeilDiv(m.total, m.per_page)
           /\ m.has_next = (m.page < m.total_pages)

\* a response over an empty result, and so with one page
C1_Witness ==
    \E r \in Listed : reqs[r].resp.meta.total = 0 /\ reqs[r].resp.meta.total_pages = 1

\* C2 as stated: every GET /employees response has len(data) <= meta.total,
\* also when employees are created or deleted between the data query and the
\* COUNT query.
C2_DataWithinTotal ==
    \A r \in Listed : Len(reqs[r].resp.data) <= reqs[r].resp.meta.total

\* the rows of employees a request for department_id d and search s is
\* about: a filter that is None, 0 or "" is not applied
FilterKeeps(d, s, e) ==
    /\ (d # None /\ ValueOf(d) # 0) => e.department_id = ValueOf(d)
    /\ (s # None /\ ValueOf(s) # <<>>) =>
          \/ ILike(e.first_name, ValueOf(s))
          \/ ILike(e.last_name, ValueOf(s))

Filtered(d, s) == { i \in DOMAIN employees : FilterKeeps(d, s, employees[i]) }

\* C3: with the table contents fixed, the COUNT query counts with the WHERE
\* conditions and the bound values of the data query: meta.total is the
\* number of rows the data query's WHERE clause kept, which is the number of
\* rows matching department_id and search, whatever page and per_page are.
C3_TotalCountsTheFilter ==
    \A r \in Listed :
        /\ reqs[r].resp.meta.total = reqs[r].obs.matched
        /\ reqs[r].resp.meta.total =
              Cardinality(Filtered(reqs[r].in.department_id, reqs[r].in.search))

\* a response counted under both filters, with rows on either side of them
C3_Witness ==
    \E r \in Listed :
        /\ TruthyInt(reqs[r].in.department_id) /\ TruthyStr(reqs[r].in.search)
        /\ reqs[r].resp.meta.total > 0
        /\ reqs[r].resp.meta.total < Cardinality(DOMAIN employees)

\* C4: with no write between its two queries, a response for page p and
\* per_page n over T matching rows holds min(n, max(0, T - (p - 1) * n)) rows;
\* page 1 of 2 per page over 3 rows holds 2 rows of 2 pages with a next page;
\* a page beyond total_pages is empty, has no next page and has a previous one.
C4_PageLength ==
    \A r \in Listed :
        LET m == reqs[r].resp.meta
            n == Len(reqs[r].resp.data)
        IN reqs[r].obs.quiet =>
             /\ n = Min(m.per_page, Max(0, m.total - (m.page - 1) * m.per_page))
             /\ (m.page = 1 /\ m.per_page = 2 /\ m.total = 3) =>
                   (n = 2 /\ m.total_pages = 2 /\ m.has_next)
             /\ m.page > m.total_pages =>
                   (n = 0 /\ ~m.has_next /\ m.has_prev)

\* page 1 of 2 per page over the 3 employees of department 1
C4_Witness ==
    \E r \in Listed :
        /\ reqs[r].in.department_id = Some(1)
        /\ reqs[r].resp.meta.page = 1 /\ reqs[r].resp.meta.per_page = 2
        /\ reqs[r].resp.meta.total = 3
        /\ Len(reqs[r].resp.data) = 2
        /\ reqs[r].obs.quiet

\* the ids of the employees that were in the table when the server started
InitialIds == DOMAIN InitialEmployees

\* the requests that hold a response of POST /employees
Posted == { r \in ReqIds : reqs[r].kind = "create_employee" /\ reqs[r].pc = "done" }

Created == { r \in Posted : reqs[r].resp.status = HTTP_201 }

\* the body names a department or a car that is not in its table
ForeignKeyMissing(b) ==
    b.department_id \notin DOMAIN departments \/ b.car_id \notin DOMAIN cars

\* C5: a POST /employees whose body passes validation and whose department_id
\* or car_id matches no row is answered 400 (not 201, not 500), and no
\* employee row is stored.
C5_MissingForeignKeyIs400 ==
    \A r \in Posted :
        (EmployeeValid(reqs[r].in.body) /\ ForeignKeyMissing(reqs[r].in.body)) =>
            /\ reqs[r].resp.status = HTTP_400
            /\ DOMAIN hist = reqs[r].obs.ids_before

\* a body with an existing department and a missing car, answered 400
C5_Witness ==
    \E r \in Posted :
        /\ EmployeeValid(reqs[r].in.body)
        /\ reqs[r].in.body.department_id \in DOMAIN departments
        /\ reqs[r].in.body.car_id \notin DOMAIN cars
        /\ reqs[r].resp.status = HTTP_400

\* C6 as stated: when the INSERT of POST /employees fails with a uniqueness
\* or foreign-key violation, the response is 400, not 500.
C6_IntegrityErrorIs400 ==
    \A r \in Posted :
        ("raised" \in DOMAIN reqs[r].obs
           /\ reqs[r].obs.raised.at = "insert"
           /\ reqs[r].obs.raised.exc = "IntegrityError") =>
              reqs[r].resp.status = HTTP_400

\* C7: a POST /employees with a digit in first_name or last_name is answered
\* 422 without reaching any statement; an accepted body is stored with both
\* names title-cased; so no row created through the API has a digit in a name.
C7_NamesValidated ==
    /\ \A r \in ReqIds :
          reqs[r].kind = "create_employee" =>
             LET b == reqs[r].in.body
             IN /\ (HasDigit(b.first_name) \/ HasDigit(b.last_name)) =>
                      (reqs[r].pc = "done" /\ reqs[r].resp.status = HTTP_422)
                /\ (reqs[r].pc = "done" /\ reqs[r].resp.status = HTTP_201) =>
                      LET d == reqs[r].resp.data
                      IN /\ d.first_name = Title(b.first_name)
                         /\ d.last_name = Title(b.last_name)
                         /\ hist[d.id].first_name = Title(b.first_name)
                         /\ hist[d.id].last_name = Title(b.last_name)
    /\ \A i \in DOMAIN hist \ InitialIds :
          ~HasDigit(hist[i].first_name) /\ ~HasDigit(hist[i].last_name)

\* an accepted body whose names were not in title case, stored in title case
C7_Witness ==
    \E r \in Created :
        /\ reqs[r].in.body.first_name # reqs[r].resp.data.first_name
        /\ reqs[r].in.body.last_name # reqs[r].resp.data.last_name
        /\ reqs[r].resp.data.id \in DOMAIN employees \ InitialIds

\* the requests that hold a 200 response of GET /employees/{id}
Got == { r \in ReqIds : /\ reqs[r].kind = "get_employee"
                       /\ reqs[r].resp.status = HTTP_200 }

\* the fields of POST's data and of GET's data that the claim compares
SameFields(d, g) ==
    /\ g.id = d.id
    /\ g.first_name = d.first_name
    /\ g.last_name = d.last_name
    /\ g.position = d.position
    /\ g.department_id = Some(d.department_id)
    /\ g.car_id = Some(d.car_id)

\* C8: a 201 response carries an id no employee had before, with the fields as
\* validated and as stored; a GET /employees/{id} of an id created through the
\* API returns the stored fields, the same as the 201 response carried.
C8_CreatedThenRead ==
    /\ \A r \in Created :
          LET d == reqs[r].resp.data
              e == EmployeeOf(reqs[r].in.body)
          IN /\ d.id \notin reqs[r].obs.ids_before
             /\ d.id \in DOMAIN hist
             /\ d = [id |-> d.id] @@ hist[d.id]
             /\ d.first_name = e.first_name /\ d.last_name = e.last_name
             /\ d.position = e.position
             /\ d.department_id = e.department_id /\ d.car_id = e.car_id
    /\ \A g \in Got :
          reqs[g].in.employee_id \notin InitialIds =>
             SameFields([id |-> reqs[g].in.employee_id] @@ hist[reqs[g].in.employee_id],
                        reqs[g].resp.data)
    /\ \A r \in Created, g \in Got :
          reqs[g].in.employee_id = reqs[r].resp.data.id =>
             SameFields(reqs[r].resp.data, reqs[g].resp.data)

\* a 201 response and the response of a GET of the id it carries
C8_Witness ==
    \E r \in Created, g \in Got :
        /\ reqs[g].in.employee_id = reqs[r].resp.data.id
        /\ reqs[g].resp.data.first_name = reqs[r].resp.data.first_name

\* the requests that hold a response of DELETE /employees/{id}
DeleteAnswered == { r \in ReqIds : reqs[r].kind = "delete_employee" /\ reqs[r].pc = "done" }

\* the deleted_employee object of a 200 response for the row hist[id]
SnapshotOf(id) ==
    [id |-> Some(id),
     name |-> <<hist[id].first_name, hist[id].last_name>>,
     position |-> hist[id].position,
     department |-> Some(departments[hist[id].department_id].name)]

\* the answers of C9: a DELETE that arrives while the row exists, a DELETE
\* that arrives after it
C9_Answers ==
    \A r \in DeleteAnswered :
        LET id == reqs[r].in.employee_id
        IN /\ reqs[r].obs.existed =>
                /\ reqs[r].resp.status = HTTP_200
                /\ reqs[r].resp.deleted_employee = SnapshotOf(id)
                /\ id \notin DOMAIN employees
           /\ ~reqs[r].obs.existed => reqs[r].resp.status = HTTP_404

\* the frame of C9: no step of a DELETE of an id that was not in the table
\* when it arrived changes a table
C9_Frame ==
    \A r \in ReqIds :
        (/\ reqs[r].kind = "delete_employee"
         /\ ~reqs[r].obs.existed
         /\ reqs'[r] # reqs[r]) => UNCHANGED <<tables, employees_id_seq>>

\* C9: of two DELETE /employees/{id} of the same id, one after the other, the
\* first is answered 200 with the id, name, position and department of the row
\* as it was, and the second 404; a DELETE of an id that is not in the table
\* is answered 404 and changes no table.
C9_DeleteTwice == []C9_Answers /\ [][C9_Frame]_vars

\* a second DELETE, of an id that was in the table once, answered 404
C9_Witness ==
    \E r \in DeleteAnswered :
        /\ reqs[r].in.employee_id \in DOMAIN hist
        /\ ~reqs[r].obs.existed
        /\ reqs[r].resp.status = HTTP_404

\* C10 as stated: a DELETE /employees/{id} that is answered 200 has removed,
\* in its one transaction, exactly the employee row with that id and the
\* employee_series rows of that id, and no other row; no request sees the
\* join rows gone while the employee row is there. (Every transaction of the
\* handler that is committed is answered 200.)
C10_RemovesExactlyTheRow ==
    [][ /\ \A r \in ReqIds :
             (/\ reqs[r].kind = "delete_employee"
              /\ reqs[r].pc = "commit"
              /\ reqs'[r].pc = "fetch") =>
                 LET id == reqs[r].in.employee_id
                 IN /\ id \in DOMAIN employees
                    /\ employees' = Restrict(employees, DOMAIN employees \ {id})
                    /\ employee_series' =
                          { es \in employee_series : es.employee_id # id }
                    /\ UNCHANGED <<departments, cars, series>>
        /\ \A i \in DOMAIN employees :
             { es \in employee_series' : es.employee_id = i }
                # { es \in employee_series : es.employee_id = i }
             => i \notin DOMAIN employees'
      ]_vars

\* the requests that hold a response
Answered == { r \in ReqIds : reqs[r].pc = "done" }

C12_InvalidSortByIs400 ==
    \A r \in Answered :
        LET q == reqs[r].in
            resp == ResponseOf(r)
        IN /\ (/\ reqs[r].kind = "get_employees"
               /\ q.page >= 1 /\ q.per_page >= 1 /\ q.per_page <= 100
               /\ q.sort_by \notin {"id", "first_name", "last_name", "position",
                                    "department_id"}) =>
                  /\ resp.status_code = HTTP_400
                  /\ resp.content.detail.value.message.joined =
                        <<"id", "first_name", "last_name", "position", "department_id">>
                  /\ reqs[r].conns = 0
           /\ (/\ reqs[r].kind = "get_series"
               /\ SeriesParamsValid(q)
               /\ q.sort_by \notin {"rating", "title", "fans"}) =>
                  /\ resp.status_code = HTTP_400
                  /\ resp.content.detail.value.message.joined =
                        <<"rating", "title", "fans">>
                  /\ reqs[r].conns = 0

\* a GET /series sorted by id, a field of the other endpoint's list
C12_Witness ==
    \E r \in Answered :
        /\ reqs[r].kind = "get_series"
        /\ reqs[r].in.sort_by = "id"
        /\ ResponseOf(r).status_code = HTTP_400
        /\ reqs[r].conns = 0

\* C13 as stated: on GET /employees and GET /series, a sort_order that is not
\* asc or desc is rejected before the SQL text is built, so the text put into
\* ORDER BY is an allow-listed column followed by ASC or DESC.
C13_OrderByIsAllowListed ==
    \A r \in ReqIds :
        /\ (reqs[r].kind \in {"get_employees", "get_series"}
              /\ "order_by" \in DOMAIN reqs[r].loc) =>
                 /\ reqs[r].loc.order_by[1] \in
                       {"id", "first_name", "last_name", "position", "department_id",
                        "rating", "title", "fans_count"}
                 /\ reqs[r].loc.order_by[2] \in {"ASC", "DESC"}
        /\ (reqs[r].kind \in {"get_employees", "get_series"}
              /\ reqs[r].in.sort_order \notin {"asc", "desc"}) =>
                 (reqs[r].pc = "done" /\ reqs[r].conns = 0)

\* C14 as stated: in every GET /employees response, a department_id or a
\* search that meta.filters reports as not null was applied as a WHERE
\* condition to the data query and to the COUNT query, department_id = 0 and
\* an empty search included.
C14_FiltersReportedWereApplied ==
    \A r \in Listed :
        LET f == reqs[r].resp.meta.filters
            conds == reqs[r].obs.conditions
        IN /\ f.department_id # None => InSeq("e.department_id = :dept_id", conds)
           /\ f.search # None =>
                 InSeq("(e.first_name ILIKE :search OR e.last_name ILIKE :search)", conds)

\* C15 as stated: a PATCH /employees/{id} with an empty JSON body is answered
\* 400 and leaves the employee row as it was.
C15_EmptyPatchIs400 ==
    \A r \in Answered :
        (/\ RequestOf(r).method = "PATCH"
         /\ reqs[r].in.body = {}) =>
            /\ ResponseOf(r).status_code = HTTP_400
            /\ \A i \in DOMAIN employees : employees[i] = hist[i]

\* C16 as stated: a POST /employees or a DELETE /employees/{id} that is
\* answered 4xx or 5xx leaves the tables as they were before the request (no
\* row of the request is stored, the row to delete is still there), also when
\* the failure comes after db.commit(), while the result row is read.
C16_FailureLeavesTables ==
    \A r \in Answered :
        /\ (reqs[r].kind = "create_employee" /\ ResponseOf(r).status_code >= 400) =>
               /\ DOMAIN hist = reqs[r].obs.ids_before
               /\ DOMAIN employees \subseteq reqs[r].obs.ids_before
        /\ (reqs[r].kind = "delete_employee" /\ ResponseOf(r).status_code >= 400) =>
               (reqs[r].obs.existed => reqs[r].in.employee_id \in DOMAIN employees)

\* C17 as stated: a request holds at most one pooled connection at any
\* moment, GET /health and GET /db/tables included, and holds none once it is
\* over.
C17_AtMostOneConnection ==
    \A r \in ReqIds :
        /\ reqs[r].conns <= 1
        /\ reqs[r].kind = "idle" => reqs[r].conns = 0

\* the GET /health requests whose handler has returned its health_data
HealthAnswered ==
    { r \in Answered : reqs[r].kind = "health_check" }

\* C18 as stated: when the COUNT of a sampled table fails, the handler still
\* returns its report (the failure does not take it to an except clause); the
\* report shows "error" for that table, the row count for every sampled table
\* whose COUNT did not fail of itself, and at most 5 tables.
C18_FailingCountIsInline ==
    \A r \in HealthAnswered :
        ("failed" \in DOMAIN reqs[r].obs /\ reqs[r].obs.failed # {}) =>
            /\ reqs[r].obs.health_data.status = "HEALTHY"
            /\ LET stats == reqs[r].obs.health_data.database.value.sample_counts
               IN /\ Len(stats) <= 5
                  /\ \A i \in 1..Len(stats) :
                        IF stats[i].table \in reqs[r].obs.failed
                        THEN stats[i].count.type = "str"
                        ELSE /\ stats[i].count.type = "int"
                             /\ stats[i].count.value = RowCount(stats[i].table)

\* health_data says the database is connected
SaysConnected(health_data) ==
    \/ health_data.database.type = "str"
          /\ health_data.database.value = "connected"
    \/ health_data.database.type = "dict"
          /\ health_data.database.value.status = "CONNECTED"

\* C19 as stated: GET /health never raises to the caller; when the probe or
\* the enumeration of the tables fails, the caller still gets the status blob,
\* with an unhealthy or error status and a database that is not reported
\* connected; the status is healthy only if SELECT 1 succeeded.
C19_HealthNeverRaises ==
    \A r \in HealthAnswered :
        LET hd == reqs[r].obs.health_data
            failed == \/ ~reqs[r].obs.probe_ok
                      \/ ~reqs[r].obs.inspect_ok
        IN /\ ResponseOf(r).status_code = HTTP_200
           /\ reqs[r].resp.content = hd
           /\ failed => (hd.status \in {"UNHEALTHY", "ERROR"} /\ ~SaysConnected(hd))
           /\ hd.status = "HEALTHY" => reqs[r].obs.probe_ok

\* the requests answered from an HTTPException a handler or get_db raised, or
\* from an exception nothing caught
Failed ==
    { r \in Answered :
        /\ "exc" \in DOMAIN reqs[r].resp
        /\ reqs[r].resp.exc \notin {"RequestValidationError", "StarletteHTTPException"} }

Openings == {"", "Internal server error: ", "Database error: ", "Error: "}

\* the message v is the text t, or t after an opening
Carries(v, t) == \E o \in Openings : v = o \o t

\* the requests a statement of which raised, with the exception
Raised == { r \in Answered : "raised" \in DOMAIN reqs[r].obs }

\* C21 as stated: when a statement of a handler raises, the request is
\* answered 500 with a message that does not carry the text of the
\* exception.
C21_NoExceptionText ==
    \A r \in Raised :
        LET e == ResponseOf(r)
        IN /\ e.status_code = HTTP_500
           /\ ~Carries(e.content.detail.value.message,
                       ExceptionText(reqs[r].obs.raised.exc))

\* the requests of GET /test/error/{error_code} whose handler was called
TestErrorAnswered ==
    { r \in Answered : /\ reqs[r].kind = "test_error_endpoint"
                       /\ SleepValid(reqs[r].in.sleep) }

\* the codes the endpoint answers as errors
TestErrorCodes == {400, 401, 403, 404, 422, 429, 500, 502, 503, 504}

\* C22 as stated: a code of the list is answered with that status and the
\* headers X-Error-Test: true and X-Test-Error-Code: <code>; any other integer
\* is answered 200 with status "success" and the code; a message the request
\* supplies is the message of the response in both cases.
C22_TestErrorEndpoint ==
    \A r \in TestErrorAnswered :
        LET q == reqs[r].in
            e == ResponseOf(r)
        IN /\ q.error_code \in TestErrorCodes =>
                /\ e.status_code = q.error_code
                /\ e.headers["X-Error-Test"] = "true"
                /\ e.headers["X-Test-Error-Code"] = ToString(q.error_code)
                /\ q.message # None =>
                      e.content.detail.value.error_message = ValueOf(q.message)
           /\ q.error_code \notin TestErrorCodes =>
                /\ e.status_code = HTTP_200
                /\ e.content.content.status = "success"
                /\ e.content.content.code = q.error_code
                /\ q.message # None =>
                      e.content.content.message = ValueOf(q.message)
\* C23 as stated: GET /admin/clear-test-data without confirm=true is answered
\* 400 and changes no table; with confirm=true it is answered 200, removes
\* only employees with a test first name, leaves every other row as it was
\* and reports as deleted_count the number of rows it removed.
C23_ClearTestData ==
    [][\A r \in ReqIds :
         (reqs[r].kind = "idle" /\ reqs'[r].kind = "clear_test_data") =>
            LET removed == DOMAIN employees \ DOMAIN employees'
            IN IF ~reqs'[r].in.confirm
               THEN /\ ResponseOf(r)'.status_code = HTTP_400
                    /\ tables' = tables
               ELSE /\ ResponseOf(r)'.status_code = HTTP_200
                    /\ \A i \in removed : IsTestName(employees[i].first_name)
                    /\ \A i \in DOMAIN employees' : employees'[i] = employees[i]
                    /\ UNCHANGED <<employee_series, departments, cars, series>>
                    /\ reqs'[r].resp.deleted_count = Cardinality(removed)
      ]_vars
\* C24 as stated: of the DELETE /employees/{id} requests that hold a response
\* at the same time, no two of the same id hold a 200, and a 200 reports
\* deleted_employee.id equal to the id of the request, never null.
C24_OneDeleteWins ==
    /\ \A r \in DeleteAnswered :
          reqs[r].resp.status = HTTP_200 =>
             reqs[r].resp.deleted_employee.id = Some(reqs[r].in.employee_id)
    /\ \A r1, r2 \in DeleteAnswered :
          (/\ r1 # r2
           /\ reqs[r1].in.employee_id = reqs[r2].in.employee_id
           /\ reqs[r1].resp.status = HTTP_200) =>
              reqs[r2].resp.status = HTTP_404
\* C25: the connections checked out never exceed pool_size + max_overflow,
\* and every GET /health request, of as many as there are connections and
\* more, is answered in the end and then holds no connection: none waits for
\* the pool forever.
C25_PoolBoundedAndLive ==
    /\ [](CheckedOut <= pool_size + max_overflow)
    /\ \A r \in PoolReqIds :
          (reqs[r].kind # "idle") ~> (reqs[r].kind = "idle" /\ reqs[r].conns = 0)

\* the pool is exhausted by sessions of GET /health requests that each wait
\* for the connection of their inspector
C25_Witness ==
    /\ CheckedOut = pool_size + max_overflow
    /\ \E r1, r2 \in PoolReqIds :
          /\ r1 # r2
          /\ reqs[r1].pc = "inspect" /\ reqs[r1].conns = 1
          /\ reqs[r2].pc = "inspect" /\ reqs[r2].conns = 1
C27_NoDanglingSeriesRows ==
    \A es \in employee_series : es.employee_id \in DOMAIN employees

\* an employee that had rows in employee_series has been deleted, and a
\* clear-test-data request with confirm=true has been answered
C27_Witness ==
    /\ \E es \in { [employee_id |-> 1, series_id |-> 1] } :
          /\ es \notin employee_series
          /\ es.employee_id \notin DOMAIN employees
    /\ \E r \in ReqIds : reqs[r].kind = "clear_test_data" /\ reqs[r].in.confirm
\* the endpoints the API offers for reading
ReadKinds ==
    {"root", "health_check", "get_employees", "get_employee", "get_series",
     "get_stats", "get_database_tables", "test_error_endpoint"}

\* C28 as stated: no step of a request to a read endpoint changes any of the
\* five tables, whatever its parameters; and no step of any request changes
\* departments, cars or series.
C28_ReadsChangeNothing ==
    [][ /\ \A r \in ReqIds :
             (/\ reqs'[r] # reqs[r]
              /\ (reqs[r].kind \in ReadKinds \/ reqs'[r].kind \in ReadKinds))
                 => tables' = tables
        /\ UNCHANGED <<departments, cars, series>>
      ]_vars
\* the passwords a deployment may put into DATABASE_URL
Passwords == { <<"Qa_2025!">>, <<"secret">>, <<"p", "@", "ss">> }

\* the text t is part of the text s
PartOf(t, s) ==
    \E i \in 1..(Len(s) - Len(t) + 1) : SubSeq(s, i, i + Len(t) - 1) = t

\* the password of a connection URL: what stands between ":" and the last "@"
PasswordOf(url) ==
    LET at == { i \in DOMAIN url : url[i] = "@" }
    IN SubSeq(url, 4, (CHOOSE i \in at : \A j \in at : j <= i) - 1)

\* C29 as stated: when the report of GET /health says the database is
\* disconnected, its connection_string does not hold the password of
\* DATABASE_URL, and connection URLs that differ in the password alone give
\* the same connection_string.
C29_PasswordMasked ==
    \A r \in HealthAnswered :
        LET hd == reqs[r].obs.health_data
        IN (hd.database.type = "dict" /\ hd.database.value.status = "DISCONNECTED") =>
              /\ ~PartOf(PasswordOf(DATABASE_URL), hd.database.value.connection_string)
              /\ \A p1, p2 \in Passwords :
                    ConnectionString(DatabaseUrl(p1)) = ConnectionString(DatabaseUrl(p2))
\* the steps that count: one per GET / request
RootStep(r) == reqs[r].kind = "idle" /\ reqs'[r].kind = "root"

\* C30: request_count starts at 0; the step of a GET / request adds exactly
\* one to it and the response of that request reports the new value; no other
\* step changes it; and GET /stats and the report of GET /health give as
\* total_requests the value the counter has when they read it. (The counter is
\* therefore the number of GET / requests handled so far, whatever the
\* interleaving.)
C30_CounterCountsRoot ==
    /\ request_count = 0
    /\ [][ /\ \A r \in ReqIds :
                 RootStep(r) =>
                    /\ request_count' = request_count + 1
                    /\ reqs'[r].resp.content.total_requests = request_count'
           /\ (\A r \in ReqIds : ~RootStep(r)) => request_count' = request_count
           /\ \A r \in ReqIds :
                 (/\ reqs[r].kind = "get_stats" /\ reqs[r].pc = "report"
                  /\ reqs'[r].pc = "done") =>
                    reqs'[r].resp.api_info.total_requests = request_count
           /\ \A r \in ReqIds :
                 (/\ reqs[r].kind = "health_check" /\ reqs[r].pc = "count"
                  /\ reqs'[r].pc = "done") =>
                    reqs'[r].obs.health_data.api.total_requests = request_count
         ]_vars

\* MaxRequests GET / requests have been handled, the last one while a GET
\* /stats was running, which then reports them all
C30_Witness ==
    /\ request_count = MaxRequests
    /\ \E r1, r2 \in ReqIds :
          /\ reqs[r1].kind = "root" /\ reqs[r1].pc = "done"
          /\ reqs[r1].resp.content.total_requests = MaxRequests
          /\ reqs[r2].kind = "get_stats" /\ reqs[r2].pc = "done"
          /\ reqs[r2].resp.status = HTTP_200
          /\ reqs[r2].resp.api_info.total_requests = MaxRequests
====
